---------------------------- MODULE Spec2Model ----------------------------
(***************************************************************************)
(* A model of hyphora-local's retrieval engine: the reciprocal-rank fusion *)
(* of search.py (search_documents), the greedy walk of graph_walk.py       *)
(* (recursive_graph_walk) and the MMR walk of mmr.py (mmr_graph_walk).     *)
(*                                                                         *)
(* Numbers.  The code computes with IEEE doubles; the model computes with  *)
(* exact rationals held as integers in a fixed unit:                       *)
(*   - a fused (RRF) score is held in units of 1/Unit(rrf_k), where        *)
(*     Unit(rrf_k) is the product of (rrf_k + r) over the ranks r that can *)
(*     occur, so that 1.0/(rrf_k + r) is the integer Unit \div (rrf_k+r);  *)
(*   - a cosine is held in units of 1/CosUnit; the embeddings are integer  *)
(*     vectors whose norms are integers dividing CosUnit;                  *)
(*   - lambda_mult is held in units of 1/LambdaUnit.                       *)
(* Rounding of the floating-point operations is not modelled.              *)
(*                                                                         *)
(* Text.  A document's content is identified with the document's id, and   *)
(* the original prompt with OriginalPrompt; these are the query texts.     *)
(***************************************************************************)
EXTENDS Integers, Sequences, FiniteSets, TLC

(***************************************************************************)
(* Bounds of the model.                                                    *)
(***************************************************************************)
NumDocs == 3
MaxK == 2
MaxHops == 2
MaxSelectK == 2
MaxDepth == 1
MaxMtime == 3
MaxCalls == 3
MaxLinkRows == 3
MaxTextLen == 3

Docs == 1..NumDocs

\* SQL NULL / Python None for an optional rank (ranks are 1-based).
Absent == 0

\* The query texts: the original prompt and each document's content.
OriginalPrompt == 0
Queries == {OriginalPrompt} \cup Docs

(***************************************************************************)
(* Sequence helpers.                                                       *)
(***************************************************************************)
Min(a, b) == IF a <= b THEN a ELSE b
Max(a, b) == IF a >= b THEN a ELSE b

Range(s) == {s[i] : i \in 1..Len(s)}

\* s[:n]
Take(s, n) == SubSeq(s, 1, Min(Max(n, 0), Len(s)))

\* s[-n:] (Python: s[-0:] is the whole of s)
LastN(s, n) == IF n = 0 THEN s ELSE SubSeq(s, Max(1, Len(s) - n + 1), Len(s))

\* 1-based position of x in the duplicate-free sequence s, Absent if none.
Position(s, x) ==
    IF x \in Range(s) THEN CHOOSE i \in 1..Len(s) : s[i] = x ELSE Absent

\* All duplicate-free sequences over subsets of S.
InjSeqs(S) ==
    UNION {{s \in [1..n -> S] : \A i, j \in 1..n : i # j => s[i] # s[j]}
           : n \in 0..Cardinality(S)}

\* All enumerations of the set S.
Perms(S) == {s \in [1..Cardinality(S) -> S] : Range(s) = S}

(***************************************************************************)
(* The corpus store.                                                       *)
(*   vault      ids of the rows of table vault                             *)
(*   links      rows (source_id, target_id) of table links                 *)
(*   ftsIndex   per query text, the documents vault_fts MATCHes, in the    *)
(*              order of ROW_NUMBER() OVER (ORDER BY rank)                 *)
(*   vecIndex   per query text, the documents of vault_vec in the order of *)
(*              ROW_NUMBER() OVER (ORDER BY distance) to the query vector  *)
(*   embedding  per document, the vault_vec row (NoEmbedding if none)      *)
(***************************************************************************)
VARIABLES vault, links, ftsIndex, vecIndex, embedding

storeVars == <<vault, links, ftsIndex, vecIndex, embedding>>

(***************************************************************************)
(* search_documents.                                                       *)
(*   sargs     the arguments of the call in progress or finished           *)
(*   results   the list the call returned                                  *)
(*   sembed    what ollama.embeddings gave the call: "none" before the     *)
(*             call, "ok", or one of the failures                          *)
(*   spc       "idle" before the call, "returned" after it, "raised" when  *)
(*             the call ended with an exception                            *)
(***************************************************************************)
VARIABLES sargs, results, sembed, spc

searchVars == <<sargs, results, sembed, spc>>

(***************************************************************************)
(* recursive_graph_walk.                                                   *)
(*   wargs            the arguments of the call                            *)
(*   current_node, visited_nodes, path, content_history                    *)
(*                    the function's locals of the same names              *)
(*   hop              how many iterations of "for hop in range(max_hops)"  *)
(*                    have begun; the loop variable of the next one        *)
(*   searchCalls      how many times the walk has called search_documents  *)
(*   werror           "none", or the exception a call made by the walk     *)
(*                    raised                                               *)
(*   wpc              "idle" before the call, "loop" at the head of the    *)
(*                    for loop, "returned" after the return, "raised" when *)
(*                    the walk ended with an exception                     *)
(***************************************************************************)
VARIABLES wargs, current_node, visited_nodes, path, content_history, hop,
          searchCalls, werror, wpc

walkVars == <<wargs, current_node, visited_nodes, path, content_history, hop,
              searchCalls, werror, wpc>>


(***************************************************************************)
(* mmr_graph_walk.                                                         *)
(*   margs                 the arguments of the call                       *)
(*   query_embedding       the query embedding after normalization         *)
(*   candidates            the dict of MMRCandidate, as the sequence of    *)
(*                         its values in insertion order                   *)
(*   selected, selected_embeddings, visited, mmr_path                      *)
(*                         the function's locals (mmr_path is its path)    *)
(*   mpc                   "idle", "loop" (head of the while loop),        *)
(*                         "returned"                                      *)
(***************************************************************************)
VARIABLES margs, query_embedding, candidates, selected, selected_embeddings,
          visited, mmr_path, mpc

mmrVars == <<margs, query_embedding, candidates, selected, selected_embeddings,
             visited, mmr_path, mpc>>

(***************************************************************************)
(* One call of the graph_walk tool (server.py).                            *)
(*   targs      the arguments of the call                                  *)
(*   response   the dict the tool returned, NoResponse if it returned none *)
(*   terror     the exception that left the tool: "none", "TypeError",     *)
(*              "RuntimeError"                                             *)
(*   tpc        "idle", "walking", "returned", "raised"                    *)
(***************************************************************************)
VARIABLES targs, response, terror, tpc

toolVars == <<targs, response, terror, tpc>>

(***************************************************************************)
(* The vault directory and the runs of sync_vault_to_database (sync.py).   *)
(* A title is identified with the id its row has or gets; a modification   *)
(* time is a number, later times being larger.                             *)
(*   files      files[d]: the file with title d, NoFile if there is none   *)
(*   content    content[d]: the content and modified_at columns of vault   *)
(*              row d                                                      *)
(*   embedded_content                                                      *)
(*              embedded_content[d]: the content generate_embedding was    *)
(*              given for the vault_vec row of d, NoContent without a row  *)
(*   docs_needing_embeddings                                               *)
(*              the ids updated or inserted by phase 1                     *)
(*   generated, vec_inserts                                                *)
(*              per id, how many embeddings generate_embedding returned    *)
(*              and how many INSERT INTO vault_vec were executed in the    *)
(*              run                                                        *)
(*   counts     the counters inserted, updated, deleted and                *)
(*              embeddings_generated of the run                            *)
(*   run_start  the directory and the store as the run found them          *)
(*   syncpc     "idle", "documents" (after the commit of sync.py:160),     *)
(*              "embeddings" (after phase 2), "done", "raised"             *)
(***************************************************************************)
VARIABLES files, content, embedded_content, docs_needing_embeddings,
          generated, vec_inserts, counts, run_start, syncpc

syncVars == <<files, content, embedded_content, docs_needing_embeddings,
              generated, vec_inserts, counts, run_start, syncpc>>

(***************************************************************************)
(* The helpers of the engine, called on their own.                         *)
(*   link_rows   the rows <<source_id, target_id>> of table links, one     *)
(*               entry per row: the table has no UNIQUE constraint and     *)
(*               holds a pair as often as it was inserted                  *)
(*   called      the node ids get_neighbors was called with                *)
(*   neighbor_lists                                                        *)
(*               neighbor_lists[a]: the list get_neighbors(a) returned     *)
(*   open_connections                                                      *)
(*               the sqlite3 connections opened by the calls so far and    *)
(*               not closed by them                                        *)
(*   call_log    the calls made so far, each with the path it left by      *)
(*   text        the query text of a search                                *)
(*   fts_query   the terms of the string bound to "vault_fts MATCH ?"      *)
(*   sanpc       "idle", or the caller of the search: "search" (a direct   *)
(*               call of search_documents) or "walk"                       *)
(*               (score_neighbors_multi_query)                             *)
(***************************************************************************)
VARIABLES link_rows, called, neighbor_lists, open_connections, call_log, text,
          fts_query, sanpc

neighborVars == <<link_rows, called, neighbor_lists>>

connVars == <<open_connections, call_log>>

sanitizeVars == <<text, fts_query, sanpc>>

helperVars == <<neighborVars, connVars, sanitizeVars>>

(***************************************************************************)
(* Reciprocal-rank fusion: the SQL statement of search_documents.          *)
(***************************************************************************)
RECURSIVE RankProduct(_, _)
RankProduct(rrf_k, n) ==
    IF n = 0 THEN 1 ELSE (rrf_k + n) * RankProduct(rrf_k, n - 1)

\* The unit of a fused score: scores are integers counting 1/Unit(rrf_k).
Unit(rrf_k) == RankProduct(rrf_k, MaxK)

\* COALESCE(1.0 / (? + rank_number), 0.0): the rank of an unmatched side of
\* the FULL OUTER JOIN is NULL, and so is the quotient.
RrfTerm(rrf_k, rank) ==
    IF rank = Absent THEN 0 ELSE Unit(rrf_k) \div (rrf_k + rank)

\* CombinedRank with the two weights exchanged.
CombinedRankSwapped(rrf_k, weight_fts, weight_vec, fts_rank, vec_rank) ==
    RrfTerm(rrf_k, fts_rank) * weight_vec + RrfTerm(rrf_k, vec_rank) * weight_fts

\* COALESCE(..fts..) * weight_fts + COALESCE(..vec..) * weight_vec
CombinedRank(rrf_k, weight_fts, weight_vec, fts_rank, vec_rank) ==
    RrfTerm(rrf_k, fts_rank) * weight_fts + RrfTerm(rrf_k, vec_rank) * weight_vec

\* vec_matches: the k nearest rows of vault_vec, joined with vault, numbered
\* by ascending distance.
VecMatches(query, k) ==
    SelectSeq(Take(vecIndex[query], k), LAMBDA d : d \in vault)

\* fts_matches: the rows vault_fts MATCHes, numbered by rank, LIMIT k.
FtsMatches(query, k) == Take(ftsIndex[query], k)

\* One row of the CTE final.
FinalRow(d, fts, vec, rrf_k, weight_fts, weight_vec) ==
    [id            |-> d,
     content       |-> d,
     vec_rank      |-> Position(vec, d),
     fts_rank      |-> Position(fts, d),
     combined_rank |-> CombinedRank(rrf_k, weight_fts, weight_vec,
                                    Position(fts, d), Position(vec, d))]

\* FinalRows as if final selected FROM vault LEFT JOIN both lists: a row for
\* every document of the vault.
FinalRowsOfVault(query, k, rrf_k, weight_fts, weight_vec) ==
    LET fts == FtsMatches(query, k)
        vec == VecMatches(query, k)
    IN  {FinalRow(d, fts, vec, rrf_k, weight_fts, weight_vec) : d \in vault}

\* fts_matches FULL OUTER JOIN vec_matches JOIN vault: one row per document
\* of the vault that is in either list.
FinalRows(query, k, rrf_k, weight_fts, weight_vec) ==
    LET fts == FtsMatches(query, k)
        vec == VecMatches(query, k)
    IN  {FinalRow(d, fts, vec, rrf_k, weight_fts, weight_vec)
         : d \in (Range(fts) \cup Range(vec)) \cap vault}

\* ORDER BY combined_rank without DESC.
OrderByCombinedRankAsc(rows) ==
    {s \in Perms(rows) :
        \A i, j \in 1..Len(s) :
            i < j => s[i].combined_rank <= s[j].combined_rank}

\* ORDER BY combined_rank DESC: the statement names no second sort key, so
\* rows of equal combined_rank may come in any order.
OrderByCombinedRankDesc(rows) ==
    {s \in Perms(rows) :
        \A i, j \in 1..Len(s) :
            i < j => s[i].combined_rank >= s[j].combined_rank}

\* SELECT * FROM final LIMIT ?: the lists search_documents may return.
SearchOutcomes(query, k, rrf_k, weight_fts, weight_vec, limit) ==
    {Take(s, limit) :
        s \in OrderByCombinedRankDesc(
                  FinalRows(query, k, rrf_k, weight_fts, weight_vec))}

\* The rows of a list search_documents returns, for a caller that only scans
\* the list for an id: all of final when the limit does not cut it (whatever
\* the order of equal scores), else those of one of the possible lists.
ReturnedRows(query, k, rrf_k, weight_fts, weight_vec, limit) ==
    LET rows == FinalRows(query, k, rrf_k, weight_fts, weight_vec)
    IN  IF Cardinality(rows) <= limit
        THEN rows
        ELSE Range(CHOOSE r \in SearchOutcomes(query, k, rrf_k, weight_fts,
                                               weight_vec, limit) : TRUE)

\* What ollama.embeddings may give: a 768-float embedding ("ok"), an
\* exception, a response without an embedding, an embedding of another length.
EmbeddingOutcomes == {"ok", "service_error", "empty", "wrong_length"}

\* Raises as if only the exception of the service were handled.
RaisesOnServiceErrorOnly(outcome) == outcome = "service_error"

\* The outcomes that end search_documents with an exception: lines 72-80
\* turn a service error and an empty embedding into RuntimeError; a vector
\* of another length than the float[768] column fails the MATCH of the
\* statement at line 98 (vec0 rejects a query vector of the wrong dimension).
Raises(outcome) == outcome # "ok"

\* The call when ollama.embeddings gives a usable embedding.
SearchDocuments(query, k, rrf_k, weight_fts, weight_vec, limit) ==
    /\ spc = "idle"
    /\ sembed' = "ok"
    /\ results' \in SearchOutcomes(query, k, rrf_k, weight_fts, weight_vec, limit)
    /\ sargs' = [query |-> query, k |-> k, rrf_k |-> rrf_k,
                 weight_fts |-> weight_fts, weight_vec |-> weight_vec,
                 limit |-> limit]
    /\ spc' = "returned"
    /\ UNCHANGED <<storeVars, toolVars, syncVars, walkVars, mmrVars, helperVars>>

\* The call when ollama.embeddings gives no usable embedding.
SearchDocumentsFails(query, k, rrf_k, weight_fts, weight_vec, limit, outcome) ==
    /\ spc = "idle"
    /\ outcome # "ok"
    /\ sembed' = outcome
    /\ sargs' = [query |-> query, k |-> k, rrf_k |-> rrf_k,
                 weight_fts |-> weight_fts, weight_vec |-> weight_vec,
                 limit |-> limit]
    /\ IF Raises(outcome)
       THEN /\ spc' = "raised"
            /\ results' = <<>>
       ELSE /\ spc' = "returned"
            /\ results' \in SearchOutcomes(query, k, rrf_k, weight_fts,
                                           weight_vec, limit)
    /\ UNCHANGED <<storeVars, toolVars, syncVars, walkVars, mmrVars, helperVars>>

(***************************************************************************)
(* recursive_graph_walk and its helpers (graph_walk.py).                   *)
(*                                                                         *)
(* A query weight is held in units of 1/WeightUnit, so a combined score is *)
(* an integer counting 1/(WeightUnit * Unit(rrf_k)); score_threshold is    *)
(* held in units of 1/ThresholdUnit.                                       *)
(***************************************************************************)
WeightUnit == 10
ThresholdUnit == 100

\* The neighbors of the starting seed, whatever the node asked for.
NeighborSetOfSeed(node_id) ==
    {l[2] : l \in {x \in links : x[1] = wargs.seed_results[1].id}}
        \cup {l[1] : l \in {x \in links : x[2] = wargs.seed_results[1].id}}

\* SELECT target_id .. WHERE source_id = ? UNION SELECT source_id .. WHERE
\* target_id = ?: the ids linked with node_id in either direction.
NeighborSet(node_id) ==
    {l[2] : l \in {x \in links : x[1] = node_id}}
        \cup {l[1] : l \in {x \in links : x[2] = node_id}}

\* get_neighbors with the WHERE clauses dropped: both ends of every link.
GetNeighborsOfAnyLink(node_id) ==
    Perms({l[2] : l \in links} \cup {l[1] : l \in links})

\* get_neighbors: the statement has no ORDER BY, so the list may come in any
\* order.
GetNeighbors(node_id) == Perms(NeighborSet(node_id))

\* The part of score_neighbors_multi_query for one neighbor and one query:
\* run search_documents with limit 1000 and scan the list for the neighbor.
NeighborResult(neighbor_id, query, rrf_params) ==
    LET all_results ==
            ReturnedRows(query, rrf_params.k, rrf_params.rrf_k,
                         rrf_params.weight_fts, rrf_params.weight_vec, 1000)
        hits == {r \in all_results : r.id = neighbor_id}
    IN  IF hits = {}
        THEN [query_text |-> query, rrf_score |-> 0,
              vec_rank |-> Absent, fts_rank |-> Absent]
        ELSE LET neighbor_result == CHOOSE r \in hits : TRUE
             IN  [query_text |-> query,
                  rrf_score |-> neighbor_result.combined_rank,
                  vec_rank |-> neighbor_result.vec_rank,
                  fts_rank |-> neighbor_result.fts_rank]

\* The sum of the scores, without the weights.
RECURSIVE ZipSumUnweighted(_, _, _)
ZipSumUnweighted(details, query_weights, n) ==
    IF n = 0 THEN 0
    ELSE details[n].rrf_score + ZipSumUnweighted(details, query_weights, n - 1)

\* sum(score * weight for score, weight in zip(individual_scores, query_weights))
RECURSIVE ZipSum(_, _, _)
ZipSum(details, query_weights, n) ==
    IF n = 0 THEN 0
    ELSE details[n].rrf_score * query_weights[n]
            + ZipSum(details, query_weights, n - 1)

\* score_neighbors_multi_query: neighbor_id -> (combined_score, query_details)
ScoreNeighborsMultiQuery(neighbor_ids, queries, query_weights, rrf_params) ==
    [n \in Range(neighbor_ids) |->
        LET query_details ==
                [i \in 1..Len(queries) |->
                    NeighborResult(n, queries[i], rrf_params)]
        IN  [combined_score |->
                 ZipSum(query_details, query_weights,
                        Min(Len(queries), Len(query_weights))),
             query_details |-> query_details]]

\* max(keys, key = combined score) taking the last of equal maxima.
BestNeighborLast(neighbor_ids, neighbor_scores) ==
    neighbor_ids[CHOOSE i \in 1..Len(neighbor_ids) :
        \A j \in 1..Len(neighbor_ids) :
            /\ neighbor_scores[neighbor_ids[j]].combined_score
                  <= neighbor_scores[neighbor_ids[i]].combined_score
            /\ j > i => neighbor_scores[neighbor_ids[j]].combined_score
                           < neighbor_scores[neighbor_ids[i]].combined_score]

\* max(neighbor_scores.keys(), key = combined score): the dict keeps the
\* order of neighbor_ids, and max returns the first of equal maxima.
BestNeighbor(neighbor_ids, neighbor_scores) ==
    neighbor_ids[CHOOSE i \in 1..Len(neighbor_ids) :
        \A j \in 1..Len(neighbor_ids) :
            /\ neighbor_scores[neighbor_ids[j]].combined_score
                  <= neighbor_scores[neighbor_ids[i]].combined_score
            /\ j < i => neighbor_scores[neighbor_ids[j]].combined_score
                           < neighbor_scores[neighbor_ids[i]].combined_score]

\* The comparison left out: no score is below the threshold.
BelowThresholdNever(best_score, score_threshold, rrf_params) == FALSE

\* best_score < score_threshold
BelowThreshold(best_score, score_threshold, rrf_params) ==
    best_score * ThresholdUnit
        < score_threshold * WeightUnit * Unit(rrf_params.rrf_k)

\* [n for n in neighbors if n not in visited_nodes], without the filter.
UnvisitedNeighborsUnfiltered(neighbors) == neighbors

\* [n for n in neighbors if n not in visited_nodes]
UnvisitedNeighbors(neighbors) ==
    SelectSeq(neighbors, LAMBDA n : n \notin visited_nodes)

\* content_history[-len(query_weights):]
QueriesToUse == LastN(content_history, Len(wargs.query_weights))

\* query_weights[-len(queries_to_use):]
WeightsToUse == LastN(wargs.query_weights, Len(QueriesToUse))

HopScores(unvisited_neighbors) ==
    ScoreNeighborsMultiQuery(unvisited_neighbors, QueriesToUse, WeightsToUse,
                             wargs.rrf_params)

\* One search_documents call per neighbor and query.
CallsOfHop(unvisited_neighbors) == Len(unvisited_neighbors) * Len(QueriesToUse)

NoNode == [id |-> 0, content |-> 0]

\* The call: lines 199-214.
RecursiveGraphWalk(seed_results, max_hops, score_threshold, query_weights, rrf_params) ==
    /\ wpc = "idle" /\ mpc = "idle"
    /\ wargs' = [seed_results |-> seed_results, max_hops |-> max_hops,
                 score_threshold |-> score_threshold,
                 query_weights |-> query_weights, rrf_params |-> rrf_params]
    /\ IF seed_results = <<>>
       THEN /\ wpc' = "returned"
            /\ UNCHANGED <<current_node, visited_nodes, content_history>>
       ELSE /\ wpc' = "loop"
            /\ current_node' = [id |-> seed_results[1].id,
                                content |-> seed_results[1].content]
            /\ visited_nodes' = {seed_results[1].id}
            /\ content_history' = <<OriginalPrompt, seed_results[1].content>>
    /\ path' = <<>>
    /\ hop' = 0
    /\ searchCalls' = 0
    /\ werror' = "none"
    /\ UNCHANGED <<storeVars, toolVars, syncVars, searchVars, mmrVars, helperVars>>

\* A loop iteration that ends at "if not unvisited_neighbors: break".
WalkNoNeighbors ==
    /\ wpc = "loop" /\ hop < wargs.max_hops
    /\ \E neighbors \in GetNeighbors(current_node.id) :
          UnvisitedNeighbors(neighbors) = <<>>
    /\ wpc' = "returned"
    /\ hop' = hop + 1
    /\ UNCHANGED <<wargs, werror, current_node, visited_nodes, path, content_history,
                   searchCalls, storeVars, toolVars, syncVars, searchVars, mmrVars,
                   helperVars>>

\* A loop iteration that ends at "if best_score < score_threshold: break".
\* (A value bound by \E over a one-element set is computed once.)
WalkBelowThreshold ==
    /\ wpc = "loop" /\ hop < wargs.max_hops
    /\ \E neighbors \in GetNeighbors(current_node.id) :
       \E unvisited_neighbors \in {UnvisitedNeighbors(neighbors)} :
          /\ unvisited_neighbors # <<>>
          /\ \E neighbor_scores \in {HopScores(unvisited_neighbors)} :
             \E best_neighbor_id \in {BestNeighbor(unvisited_neighbors, neighbor_scores)} :
                /\ BelowThreshold(neighbor_scores[best_neighbor_id].combined_score,
                                  wargs.score_threshold, wargs.rrf_params)
                /\ searchCalls' = searchCalls + CallsOfHop(unvisited_neighbors)
    /\ wpc' = "returned"
    /\ hop' = hop + 1
    /\ UNCHANGED <<wargs, werror, current_node, visited_nodes, path, content_history,
                   storeVars, toolVars, syncVars, searchVars, mmrVars,
                   helperVars>>

\* A loop iteration that ends at "if not row: break": the best neighbor has
\* no row in vault.
WalkRowMissing ==
    /\ wpc = "loop" /\ hop < wargs.max_hops
    /\ \E neighbors \in GetNeighbors(current_node.id) :
       \E unvisited_neighbors \in {UnvisitedNeighbors(neighbors)} :
          /\ unvisited_neighbors # <<>>
          /\ \E neighbor_scores \in {HopScores(unvisited_neighbors)} :
             \E best_neighbor_id \in {BestNeighbor(unvisited_neighbors, neighbor_scores)} :
                /\ ~BelowThreshold(neighbor_scores[best_neighbor_id].combined_score,
                                   wargs.score_threshold, wargs.rrf_params)
                /\ best_neighbor_id \notin vault
                /\ searchCalls' = searchCalls + CallsOfHop(unvisited_neighbors)
    /\ wpc' = "returned"
    /\ hop' = hop + 1
    /\ UNCHANGED <<wargs, werror, current_node, visited_nodes, path, content_history,
                   storeVars, toolVars, syncVars, searchVars, mmrVars,
                   helperVars>>

\* A loop iteration in which a search_documents call made by
\* score_neighbors_multi_query raises (the embedding service fails): neither
\* function catches it, so the walk ends with the exception.  The failing
\* call is the first or the last of the hop.
WalkSearchFails ==
    /\ wpc = "loop" /\ hop < wargs.max_hops
    /\ \E neighbors \in GetNeighbors(current_node.id) :
       \E unvisited_neighbors \in {UnvisitedNeighbors(neighbors)} :
          /\ CallsOfHop(unvisited_neighbors) > 0
          /\ \E failing \in {1, CallsOfHop(unvisited_neighbors)} :
                searchCalls' = searchCalls + failing
    /\ werror' = "RuntimeError"
    /\ wpc' = "raised"
    /\ hop' = hop + 1
    /\ UNCHANGED <<wargs, current_node, visited_nodes, path, content_history,
                   storeVars, toolVars, syncVars, searchVars, mmrVars,
                   helperVars>>

\* distance_from_seed as the loop variable itself.
DistanceOfHopIndex(h) == h

\* distance_from_seed = hop + 1, for the loop variable h of the iteration
DistanceFromSeed(h) == h + 1

\* A loop iteration that runs to its end: the best neighbor becomes a
\* WalkStep and the current node.
WalkHop ==
    /\ wpc = "loop" /\ hop < wargs.max_hops
    /\ \E neighbors \in GetNeighbors(current_node.id) :
       \E unvisited_neighbors \in {UnvisitedNeighbors(neighbors)} :
          /\ unvisited_neighbors # <<>>
          /\ \E neighbor_scores \in {HopScores(unvisited_neighbors)} :
             \E best_neighbor_id \in {BestNeighbor(unvisited_neighbors, neighbor_scores)} :
             \E best \in {neighbor_scores[best_neighbor_id]} :
                /\ ~BelowThreshold(best.combined_score, wargs.score_threshold,
                                   wargs.rrf_params)
                /\ best_neighbor_id \in vault
                /\ path' = Append(path,
                              [id |-> best_neighbor_id,
                               content |-> best_neighbor_id,
                               combined_score |-> best.combined_score,
                               distance_from_seed |-> DistanceFromSeed(hop),
                               query_scores |-> best.query_details])
                /\ visited_nodes' = visited_nodes \cup {best_neighbor_id}
                /\ current_node' = [id |-> best_neighbor_id,
                                    content |-> best_neighbor_id]
                /\ content_history' = Append(content_history, best_neighbor_id)
                /\ searchCalls' = searchCalls + CallsOfHop(unvisited_neighbors)
    /\ hop' = hop + 1
    /\ UNCHANGED <<wargs, werror, wpc, storeVars, toolVars, syncVars, searchVars, mmrVars,
            helperVars>>

\* range(max_hops) is used up: the for loop ends and path is returned.
WalkLoopEnd ==
    /\ wpc = "loop" /\ hop >= wargs.max_hops
    /\ wpc' = "returned"
    /\ UNCHANGED <<wargs, werror, current_node, visited_nodes, path, content_history,
                   hop, searchCalls, storeVars, toolVars, syncVars, searchVars, mmrVars,
                   helperVars>>

(***************************************************************************)
(* mmr_graph_walk and its helpers (mmr.py).                                *)
(*                                                                         *)
(* An embedding is a vector of EmbeddingDim integers counting 1/UnitNorm,  *)
(* so a vector of norm UnitNorm is a unit vector.  A cosine counts         *)
(* 1/CosUnit, lambda_mult counts 1/LambdaUnit, and an MMR score (and       *)
(* min_mmr_score) counts 1/(LambdaUnit * CosUnit).                         *)
(***************************************************************************)
\* A document without a vault_vec row.
NoEmbedding == <<>>

UnitNorm == 5
MaxNorm == 10
CosUnit == 100
LambdaUnit == 2

Dot(vec1, vec2) == vec1[1] * vec2[1] + vec1[2] * vec2[2]

\* np.linalg.norm
Norm(vec) == CHOOSE n \in 0..MaxNorm : n * n = Dot(vec, vec)

\* cosine_similarity
CosineSimilarity(vec1, vec2) ==
    IF Norm(vec1) = 0 \/ Norm(vec2) = 0
    THEN 0
    ELSE (Dot(vec1, vec2) * CosUnit) \div (Norm(vec1) * Norm(vec2))

\* query_embedding / query_norm, if query_norm > 0
NormalizeQuery(vec) ==
    IF Norm(vec) > 0
    THEN [i \in DOMAIN vec |-> (vec[i] * UnitNorm) \div Norm(vec)]
    ELSE vec

\* mmr_score with the default lambda_mult = 0.5 in place of the argument.
MmrScoreDefaultLambda(candidate, lambda_mult) ==
    candidate.similarity - candidate.max_redundancy

\* mmr_score adding the redundancy term instead of subtracting it.
MmrScoreAddsRedundancy(candidate, lambda_mult) ==
    lambda_mult * candidate.similarity
        + (LambdaUnit - lambda_mult) * candidate.max_redundancy

\* MMRCandidate.mmr_score
MmrScore(candidate, lambda_mult) ==
    lambda_mult * candidate.similarity
        - (LambdaUnit - lambda_mult) * candidate.max_redundancy

\* get_embeddings_batch: the ids among doc_ids that have a vault_vec row
HasEmbedding(d) == d \in Docs /\ embedding[d] # NoEmbedding

\* get_documents_batch: the ids among doc_ids that have a vault row
HasDocument(d) == d \in vault

MMRCandidate(id, emb, similarity, max_redundancy, depth) ==
    [id |-> id, content |-> id, embedding |-> emb, similarity |-> similarity,
     max_redundancy |-> max_redundancy, depth |-> depth]

\* candidates[c.id] = c: a new key goes to the end of the dict, an existing
\* key keeps its place.
DictPut(cands, c) ==
    IF \E i \in 1..Len(cands) : cands[i].id = c.id
    THEN [i \in 1..Len(cands) |-> IF cands[i].id = c.id THEN c ELSE cands[i]]
    ELSE Append(cands, c)

\* The candidate is left in the dict.
DictDelNothing(cands, id) == cands

\* del candidates[best_id]
DictDel(cands, id) == SelectSeq(cands, LAMBDA c : c.id # id)

\* The loop over seed_results[:3] (lines 180-195), for the first n of them.
RECURSIVE SeedCandidates(_, _, _)
SeedCandidates(seeds, query, n) ==
    IF n = 0 THEN <<>>
    ELSE LET before == SeedCandidates(seeds, query, n - 1)
             seed == seeds[n]
         IN  IF ~HasEmbedding(seed.id)
             THEN before
             ELSE DictPut(before,
                          MMRCandidate(seed.id, embedding[seed.id],
                                       CosineSimilarity(query, embedding[seed.id]),
                                       0, 0))

\* The loop of lines 205-209 taking ">=" for ">": the last of equal maxima.
BestCandidateLast(cands, lambda_mult) ==
    CHOOSE i \in 1..Len(cands) :
        \A j \in 1..Len(cands) :
            /\ MmrScore(cands[j], lambda_mult) <= MmrScore(cands[i], lambda_mult)
            /\ j > i => MmrScore(cands[j], lambda_mult) < MmrScore(cands[i], lambda_mult)

\* The loop of lines 205-209: the place of the first candidate, in dict
\* order, whose score is the maximum.
BestCandidate(cands, lambda_mult) ==
    CHOOSE i \in 1..Len(cands) :
        \A j \in 1..Len(cands) :
            /\ MmrScore(cands[j], lambda_mult) <= MmrScore(cands[i], lambda_mult)
            /\ j < i => MmrScore(cands[j], lambda_mult) < MmrScore(cands[i], lambda_mult)

\* Lines 258-262 overwriting max_redundancy with the new cosine.
UpdateRedundancyOverwrite(cands, best_candidate) ==
    [i \in 1..Len(cands) |->
        [cands[i] EXCEPT !.max_redundancy =
            CosineSimilarity(cands[i].embedding, best_candidate.embedding)]]

\* Lines 258-262: max_redundancy = max(max_redundancy, cosine to the newly
\* selected candidate), for every remaining candidate.
UpdateRedundancy(cands, best_candidate) ==
    [i \in 1..Len(cands) |->
        [cands[i] EXCEPT !.max_redundancy =
            Max(cands[i].max_redundancy,
                CosineSimilarity(cands[i].embedding, best_candidate.embedding))]]

\* neighbor_candidates.sort(key = similarity, reverse = True): a stable sort.
InsertBySimilarity(sorted, x) ==
    LET p == Cardinality({i \in 1..Len(sorted) : sorted[i].similarity >= x.similarity})
    IN  SubSeq(sorted, 1, p) \o <<x>> \o SubSeq(sorted, p + 1, Len(sorted))

RECURSIVE SortBySimilarity(_, _)
SortBySimilarity(seq, n) ==
    IF n = 0 THEN <<>>
    ELSE InsertBySimilarity(SortBySimilarity(seq, n - 1), seq[n])

\* The default of the dataclass in place of lines 296-299.
InitialRedundancyZero(emb, sel_embs, n) == 0

\* Lines 296-299: the largest cosine to a selected embedding, at least 0.0.
RECURSIVE InitialRedundancy(_, _, _)
InitialRedundancy(emb, sel_embs, n) ==
    IF n = 0 THEN 0
    ELSE Max(InitialRedundancy(emb, sel_embs, n - 1),
             CosineSimilarity(emb, sel_embs[n]))

\* Lines 277-287: the unvisited neighbors that have an embedding and a
\* document row, with their similarity to the query.
NeighborCandidates(unvisited_neighbors, query) ==
    LET scorable == SelectSeq(unvisited_neighbors,
                              LAMBDA n : HasEmbedding(n) /\ HasDocument(n))
    IN  [i \in 1..Len(scorable) |->
            [id |-> scorable[i], embedding |-> embedding[scorable[i]],
             similarity |-> CosineSimilarity(query, embedding[scorable[i]])]]

\* Lines 292-310 with depth = best_candidate.depth + 2.
RECURSIVE InsertNeighborsDeeper(_, _, _, _, _)
InsertNeighborsDeeper(cands, kept, sel_embs, depth, n) ==
    IF n = 0 THEN cands
    ELSE DictPut(InsertNeighborsDeeper(cands, kept, sel_embs, depth, n - 1),
                 MMRCandidate(kept[n].id, kept[n].embedding, kept[n].similarity,
                              InitialRedundancy(kept[n].embedding, sel_embs,
                                                Len(sel_embs)),
                              depth + 1))

\* Lines 292-310 for the first n of the kept neighbors: insert each into the
\* dict.
RECURSIVE InsertNeighbors(_, _, _, _, _)
InsertNeighbors(cands, kept, sel_embs, depth, n) ==
    IF n = 0 THEN cands
    ELSE DictPut(InsertNeighbors(cands, kept, sel_embs, depth, n - 1),
                 MMRCandidate(kept[n].id, kept[n].embedding, kept[n].similarity,
                              InitialRedundancy(kept[n].embedding, sel_embs,
                                                Len(sel_embs)),
                              depth))

\* The cut without the sort: the first adjacent_k in the store's order.
KeptNeighborsUnsorted(unvisited_neighbors, query, adjacent_k) ==
    Take(NeighborCandidates(unvisited_neighbors, query), adjacent_k)

\* Lines 289-294: the neighbors that go into the frontier.
KeptNeighbors(unvisited_neighbors, query, adjacent_k) ==
    LET neighbor_candidates == NeighborCandidates(unvisited_neighbors, query)
    IN  Take(SortBySimilarity(neighbor_candidates, Len(neighbor_candidates)),
             adjacent_k)

NoMmrArgs == [seed_results |-> <<>>, query_embedding |-> <<0, 0>>,
              lambda_mult |-> 0, select_k |-> 0, adjacent_k |-> 0,
              max_depth |-> 0, min_mmr_score |-> 0]

\* The call: lines 161-198.
MmrGraphWalk(seed_results, query, lambda_mult, select_k, adjacent_k, max_depth, min_mmr_score) ==
    /\ mpc = "idle" /\ wpc = "idle"
    /\ margs' = [seed_results |-> seed_results, query_embedding |-> query,
                 lambda_mult |-> lambda_mult, select_k |-> select_k,
                 adjacent_k |-> adjacent_k, max_depth |-> max_depth,
                 min_mmr_score |-> min_mmr_score]
    /\ IF seed_results = <<>>
       THEN /\ mpc' = "returned"
            /\ UNCHANGED <<query_embedding, candidates, visited>>
       ELSE /\ mpc' = "loop"
            /\ query_embedding' = NormalizeQuery(query)
            /\ candidates' = SeedCandidates(Take(seed_results, 3),
                                            NormalizeQuery(query),
                                            Len(Take(seed_results, 3)))
            /\ visited' = {seed_results[i].id : i \in
                             {j \in 1..Len(Take(seed_results, 3)) :
                                 HasEmbedding(seed_results[j].id)}}
    /\ selected' = <<>>
    /\ selected_embeddings' = <<>>
    /\ mmr_path' = <<>>
    /\ UNCHANGED <<storeVars, toolVars, syncVars, searchVars, walkVars, helperVars>>

\* The while condition without its bound on the number of selections.
WhileConditionUnbounded == candidates # <<>>

\* while len(selected) < select_k and candidates
WhileCondition == Len(selected) < margs.select_k /\ candidates # <<>>

\* An iteration that ends at "if best_id is None or best_score <
\* min_mmr_score: break".
MmrBelowMinScore ==
    /\ mpc = "loop" /\ WhileCondition
    /\ MmrScore(candidates[BestCandidate(candidates, margs.lambda_mult)],
                margs.lambda_mult) < margs.min_mmr_score
    /\ mpc' = "returned"
    /\ UNCHANGED <<margs, query_embedding, candidates, selected,
                   selected_embeddings, visited, mmr_path, storeVars, toolVars, syncVars,
                   searchVars, walkVars, helperVars>>

\* The expansion without its depth test: get_neighbors is always called.
ExpansionNeighborsAtAnyDepth(best_candidate) ==
    GetNeighbors(best_candidate.id)

\* The lists get_neighbors may return to the expansion of a candidate of
\* the given depth; no call is made at max_depth.
ExpansionNeighbors(best_candidate) ==
    IF best_candidate.depth < margs.max_depth
    THEN GetNeighbors(best_candidate.id)
    ELSE {<<>>}

\* An iteration that runs to its end: select the best candidate, update the
\* redundancy of the others, expand the frontier.
MmrSelect ==
    /\ mpc = "loop" /\ WhileCondition
    /\ \E best_candidate \in
            {candidates[BestCandidate(candidates, margs.lambda_mult)]} :
       \E best_score \in {MmrScore(best_candidate, margs.lambda_mult)} :
          /\ best_score >= margs.min_mmr_score
          /\ selected' = Append(selected, <<best_candidate.id, best_score>>)
          /\ selected_embeddings' =
                 Append(selected_embeddings, best_candidate.embedding)
          /\ mmr_path' = Append(mmr_path,
                [id |-> best_candidate.id,
                 content |-> best_candidate.content,
                 combined_score |-> best_score,
                 distance_from_seed |-> best_candidate.depth,
                 query_scores |->
                    <<[query_type |-> "mmr_relevance",
                       rrf_score |-> best_candidate.similarity],
                      [query_type |-> "mmr_diversity",
                       rrf_score |-> CosUnit - best_candidate.max_redundancy],
                      [query_type |-> "mmr_combined",
                       rrf_score |-> best_score]>>])
          /\ \E neighbors \in ExpansionNeighbors(best_candidate) :
             \E kept \in {KeptNeighbors(
                              SelectSeq(neighbors, LAMBDA n : n \notin visited),
                              query_embedding, margs.adjacent_k)} :
                /\ candidates' =
                       InsertNeighbors(
                           UpdateRedundancy(DictDel(candidates, best_candidate.id),
                                            best_candidate),
                           kept,
                           Append(selected_embeddings, best_candidate.embedding),
                           best_candidate.depth + 1, Len(kept))
                /\ visited' = visited \cup {kept[i].id : i \in 1..Len(kept)}
    /\ UNCHANGED <<margs, query_embedding, mpc, storeVars, toolVars, syncVars, searchVars, walkVars,
            helperVars>>

\* The while condition fails: path is returned.
MmrLoopEnd ==
    /\ mpc = "loop" /\ ~WhileCondition
    /\ mpc' = "returned"
    /\ UNCHANGED <<margs, query_embedding, candidates, selected,
                   selected_embeddings, visited, mmr_path, storeVars, toolVars, syncVars,
                   searchVars, walkVars, helperVars>>

(***************************************************************************)
(* The stores and arguments the searches are checked on.                   *)
(***************************************************************************)
\* The document texts differ, so a ranking differs from query to query: the
\* index answers query q with the base ranking moved on by q.
\* The documents with an embedding, in ascending order, as a vector ranking.
RECURSIVE EmbeddedDocs(_, _)
EmbeddedDocs(emb, n) ==
    IF n = 0 THEN <<>>
    ELSE IF emb[n] # NoEmbedding THEN Append(EmbeddedDocs(emb, n - 1), n)
         ELSE EmbeddedDocs(emb, n - 1)

(***************************************************************************)
(* sync_vault_to_database (sync.py): one action per transaction.           *)
(***************************************************************************)
\* The rows of vault_fts, kept equal to those of vault by the triggers
\* vault_ai, vault_au and vault_ad: every row matches, in ascending id.
RECURSIVE VaultRows(_, _)
VaultRows(v, n) ==
    IF n = 0 THEN <<>>
    ELSE IF n \in v THEN Append(VaultRows(v, n - 1), n)
         ELSE VaultRows(v, n - 1)

NoFile == [present |-> FALSE, modified_at |-> 0, long |-> FALSE, links |-> {}]

NoContent == [present |-> FALSE, modified_at |-> 0, long |-> FALSE, links |-> {}]

\* The content and modified_at a file gives its vault row.
ContentOfFile(f) ==
    [present |-> TRUE, modified_at |-> f.modified_at, long |-> f.long,
     links |-> f.links]

\* generate_embedding: None below 10 characters, else a 768-float vector.
GenerateEmbedding(c) == IF c.long THEN <<5, 0>> ELSE NoEmbedding

NoCounts == [inserted |-> 0, updated |-> 0, deleted |-> 0,
             embeddings_generated |-> 0]

NoRun == [started |-> FALSE]

\* In the database, not in the filesystem (sync.py:131-134)
DocsToDelete == {d \in vault : ~files[d].present}
\* File not older than the row
DocsToUpdateNotOlder ==
    {d \in vault :
        files[d].present /\ files[d].modified_at >= content[d].modified_at}
\* In both, file newer than the row (sync.py:138-148)
DocsToUpdate ==
    {d \in vault :
        files[d].present /\ files[d].modified_at > content[d].modified_at}
\* In the filesystem only (sync.py:149-158)
DocsToInsert == {d \in Docs \ vault : files[d].present}

\* Phase 1 up to its commit (sync.py:87-160). Deleting a vault row deletes
\* its vault_fts and vault_vec rows (triggers vault_ad, vault_vec_ad); no
\* statement of the phase touches links, whose foreign keys are not enforced
\* (no PRAGMA foreign_keys) and have no ON DELETE action.
SyncDocuments ==
    /\ syncpc \in {"idle", "done", "raised"}
    /\ run_start' = [started |-> TRUE, files |-> files, vault |-> vault,
                     embedding |-> embedding, links |-> links,
                     unchanged |-> /\ syncpc = "done"
                                   /\ files = run_start.files]
    /\ vault' = (vault \ DocsToDelete) \cup DocsToInsert
    /\ content' = [d \in Docs |->
                      IF d \in DocsToDelete THEN NoContent
                      ELSE IF d \in DocsToUpdate \cup DocsToInsert
                      THEN ContentOfFile(files[d])
                      ELSE content[d]]
    /\ embedding' = [d \in Docs |->
                        IF d \in DocsToDelete THEN NoEmbedding
                        ELSE embedding[d]]
    /\ embedded_content' = [d \in Docs |->
                               IF d \in DocsToDelete THEN NoContent
                               ELSE embedded_content[d]]
    /\ ftsIndex' = [q \in Queries |-> VaultRows(vault', NumDocs)]
    /\ vecIndex' = [q \in Queries |-> EmbeddedDocs(embedding', NumDocs)]
    /\ docs_needing_embeddings' = DocsToUpdate \cup DocsToInsert
    /\ counts' = [inserted |-> Cardinality(DocsToInsert),
                  updated |-> Cardinality(DocsToUpdate),
                  deleted |-> Cardinality(DocsToDelete),
                  embeddings_generated |-> 0]
    /\ generated' = [d \in Docs |-> 0]
    /\ vec_inserts' = [d \in Docs |-> 0]
    /\ syncpc' = "documents"
    /\ UNCHANGED <<links, files, searchVars, walkVars, mmrVars, toolVars, helperVars>>

\* Rows without a vault_vec row (sync.py:164-170)
MissingEmbeddings == {d \in vault : embedding[d] = NoEmbedding}
\* all_docs_needing_embeddings, as a set (sync.py:173-185)
AllDocsNeedingEmbeddings == docs_needing_embeddings \cup MissingEmbeddings
\* all_docs_needing_embeddings, the list: the rows of docs_needing_embeddings,
\* then those of missing_embeddings (sync.py:176-185), each part taken in
\* ascending id.
AllDocsList ==
    VaultRows(docs_needing_embeddings, NumDocs)
        \o VaultRows(MissingEmbeddings, NumDocs)
\* The ids that are in the list twice, whose embedding is generated twice and
\* whose second write is an INSERT too, existing_embeddings being read before
\* the loop (sync.py:189-190, :209-218); vault_vec rejects the second row of
\* an id.
InsertedTwice ==
    {d \in docs_needing_embeddings \cap MissingEmbeddings : content[d].long}
\* The documents generate_embedding calls the embedding service for
EmbeddingRequests == {d \in AllDocsNeedingEmbeddings : content[d].long}

\* Iteration i of the loop of sync.py:193 gets an embedding (sync.py:204-206)
GetsEmbedding(i) == content[AllDocsList[i]].long
\* ... and writes it with INSERT (sync.py:209, :214-218)
WritesWithInsert(i) ==
    GetsEmbedding(i) /\ embedding[AllDocsList[i]] = NoEmbedding
\* ... and the INSERT is the second one of its id
SecondInsert(i) ==
    WritesWithInsert(i) /\ \E j \in 1..(i - 1) : AllDocsList[j] = AllDocsList[i]

\* Per id, the embeddings generated and the INSERTs executed by the first n
\* iterations
GeneratedBy(n) ==
    [d \in Docs |->
        Cardinality({i \in 1..n : AllDocsList[i] = d /\ GetsEmbedding(i)})]

InsertsBy(n) ==
    [d \in Docs |->
        Cardinality({i \in 1..n : AllDocsList[i] = d /\ WritesWithInsert(i)})]

\* Phase 2 with every embedding generated and written (sync.py:164-228)
SyncEmbeddings ==
    /\ syncpc = "documents"
    /\ InsertedTwice = {}
    /\ embedding' = [d \in Docs |->
                        IF d \in EmbeddingRequests
                        THEN GenerateEmbedding(content[d])
                        ELSE embedding[d]]
    /\ embedded_content' = [d \in Docs |->
                               IF d \in EmbeddingRequests
                               THEN content[d]
                               ELSE embedded_content[d]]
    /\ vecIndex' = [q \in Queries |-> EmbeddedDocs(embedding', NumDocs)]
    /\ generated' = GeneratedBy(Len(AllDocsList))
    /\ vec_inserts' = InsertsBy(Len(AllDocsList))
    /\ counts' = [counts EXCEPT !.embeddings_generated =
                     Cardinality({i \in 1..Len(AllDocsList) : GetsEmbedding(i)})]
    /\ syncpc' = "embeddings"
    /\ UNCHANGED <<vault, links, ftsIndex, files, content,
                   docs_needing_embeddings, run_start, searchVars, walkVars,
                   mmrVars, toolVars, helperVars>>

\* Phase 2 left by an exception in iteration i: generate_embedding raises
\* RuntimeError when the service fails (at_insert = FALSE), or the second
\* INSERT of an id fails (at_insert = TRUE). The writes of the phase are not
\* committed; conn.close() drops them (sync.py:237-238).
SyncEmbeddingsRaises ==
    /\ syncpc = "documents"
    /\ EmbeddingRequests # {}
    /\ \E i \in 1..Len(AllDocsList) :
          /\ GetsEmbedding(i)
          /\ \A j \in 1..(i - 1) : ~SecondInsert(j)
          /\ \E at_insert \in {SecondInsert(i), FALSE} :
                LET n == IF at_insert THEN i ELSE i - 1
                IN  /\ generated' = GeneratedBy(n)
                    /\ vec_inserts' = InsertsBy(n)
    /\ syncpc' = "raised"
    /\ UNCHANGED <<storeVars, files, content, embedded_content,
                   docs_needing_embeddings, counts, run_start, searchVars,
                   walkVars, mmrVars, toolVars, helperVars>>

\* extract_and_store_links: the links of the rows' contents whose target
\* title is a row (sync.py:41-75)
ExtractedLinks ==
    {l \in vault \X vault : l[2] \in content[l[1]].links}

\* Phase 3 and its commit, and the return (sync.py:234-240)
SyncLinks ==
    /\ syncpc = "embeddings"
    /\ links' = ExtractedLinks
    /\ syncpc' = "done"
    /\ UNCHANGED <<vault, ftsIndex, vecIndex, embedding, files, content,
                   embedded_content, docs_needing_embeddings, generated,
                   vec_inserts, counts, run_start, searchVars, walkVars,
                   mmrVars, toolVars, helperVars>>

\* The latest modification time of a file or a row
Clock ==
    LET times == {files[d].modified_at : d \in Docs}
                     \cup {content[d].modified_at : d \in Docs}
    IN  CHOOSE t \in times : \A u \in times : u <= t

\* Between two runs the user writes the file with title d.
WriteFile(d, long, wiki_links) ==
    /\ syncpc \in {"idle", "done", "raised"}
    /\ Clock < MaxMtime
    /\ files' = [files EXCEPT ![d] =
                    [present |-> TRUE, modified_at |-> Clock + 1,
                     long |-> long, links |-> wiki_links]]
    /\ UNCHANGED <<storeVars, content, embedded_content,
                   docs_needing_embeddings, generated, vec_inserts, counts,
                   run_start, syncpc, searchVars, walkVars, mmrVars, toolVars,
                   helperVars>>

\* Between two runs the user removes the file with title d.
RemoveFile(d) ==
    /\ syncpc \in {"idle", "done", "raised"}
    /\ files[d].present
    /\ files' = [files EXCEPT ![d] = NoFile]
    /\ UNCHANGED <<storeVars, content, embedded_content,
                   docs_needing_embeddings, generated, vec_inserts, counts,
                   run_start, syncpc, searchVars, walkVars, mmrVars, toolVars,
                   helperVars>>

(***************************************************************************)
(* The graph_walk tool of server.py.                                       *)
(***************************************************************************)
NoToolArgs == [seed_documents |-> <<>>, use_mmr |-> FALSE, k |-> 0,
               seed_limit |-> 0]

NoResponse == [returned |-> FALSE]

\* A SearchResult, as far as the walks and the tool read it.
SeedResult(d) == [id |-> d, content |-> d]

\* The parameters recursive_graph_walk can be called with.
WalkParameters ==
    {"config", "seed_results", "original_prompt", "max_hops",
     "score_threshold", "query_weights", "rrf_params"}

\* The keyword arguments of the tool's call of recursive_graph_walk (the walk
\* command of cli.py:224-240 passes the same ones).
ToolCallKeywords ==
    {"max_hops", "score_threshold", "query_weights", "rrf_params", "use_mmr",
     "mmr_lambda", "mmr_adjacent_k"}

\* Python binds a call only if the callee has a parameter for each keyword.
UnexpectedKeywords == ToolCallKeywords \ WalkParameters

\* seed_documents -> SearchResult objects (server.py:163-178)
SeedResultsOf(seed_documents) ==
    [i \in 1..Len(seed_documents) |-> SeedResult(seed_documents[i])]

\* The dict returned when there is no seed.
NoSeedResponse ==
    [returned |-> TRUE, query |-> OriginalPrompt, seeds |-> <<>>,
     walk_path |-> <<>>, error |-> "No seed documents found"]

\* What the tool does once it has its seeds.
ToolWalk(seed_results) ==
    IF seed_results = <<>>
    THEN /\ response' = NoSeedResponse
         /\ terror' = "none"
         /\ tpc' = "returned"
    ELSE IF UnexpectedKeywords # {}
    THEN /\ response' = NoResponse
         /\ terror' = "TypeError"
         /\ tpc' = "raised"
    ELSE /\ response' = NoResponse
         /\ terror' = "none"
         /\ tpc' = "walking"

\* A call with seed_documents.
GraphWalkToolWithSeeds(seed_documents, use_mmr) ==
    /\ tpc = "idle"
    /\ seed_documents # <<>>
    /\ targs' = [seed_documents |-> seed_documents, use_mmr |-> use_mmr,
                 k |-> 0, seed_limit |-> 0]
    /\ ToolWalk(SeedResultsOf(seed_documents))
    /\ UNCHANGED <<storeVars, searchVars, walkVars, mmrVars, syncVars, helperVars>>

\* A call without seed_documents: the seeds are the rows of a search.
GraphWalkToolSearching(use_mmr, k, seed_limit) ==
    /\ tpc = "idle"
    /\ targs' = [seed_documents |-> <<>>, use_mmr |-> use_mmr, k |-> k,
                 seed_limit |-> seed_limit]
    /\ \E rows \in SearchOutcomes(OriginalPrompt, k, 60, 1, 1, seed_limit) :
          ToolWalk([i \in 1..Len(rows) |-> SeedResult(rows[i].id)])
    /\ UNCHANGED <<storeVars, searchVars, walkVars, mmrVars, syncVars, helperVars>>

\* A call without seed_documents whose search raises.
GraphWalkToolSearchFails(use_mmr, k, seed_limit) ==
    /\ tpc = "idle"
    /\ targs' = [seed_documents |-> <<>>, use_mmr |-> use_mmr, k |-> k,
                 seed_limit |-> seed_limit]
    /\ response' = NoResponse
    /\ terror' = "RuntimeError"
    /\ tpc' = "raised"
    /\ UNCHANGED <<storeVars, searchVars, walkVars, mmrVars, syncVars, helperVars>>

Relabel(base, q) == [i \in 1..Len(base) |-> ((base[i] - 1 + q) % NumDocs) + 1]

RotateSeq(base, q) ==
    [i \in 1..Len(base) |-> base[((i - 1 + q) % Len(base)) + 1]]

FtsIndexOf(base, v) ==
    [q \in Queries |-> SelectSeq(Relabel(base, q), LAMBDA d : d \in v)]

VecIndexOf(base, v) ==
    [q \in Queries |-> SelectSeq(RotateSeq(base, q), LAMBDA d : d \in v)]

\* <<weight_fts, weight_vec>>
WeightPairs == {<<1, 1>>, <<2, 1>>, <<1, 0>>, <<0, 1>>, <<0, 0>>, <<-1, 1>>}
\* limit: 1000 is what score_neighbors_multi_query passes
LimitSet == {0, 1, 2, 1000}
RrfKSet == {0, 60}

\* The rankings the index may hold for a query: up to MaxK places, so that a
\* search with k < MaxK cuts a list and one with k = MaxK does not.
IndexLists == {s \in InjSeqs(Docs) : Len(s) <= MaxK}

NoArgs == [query |-> OriginalPrompt, k |-> 0, rrf_k |-> 0, weight_fts |-> 0,
           weight_vec |-> 0, limit |-> 0]

NoWalkArgs == [seed_results |-> <<>>, max_hops |-> 0, score_threshold |-> 0,
               query_weights |-> <<>>,
               rrf_params |-> [k |-> 0, rrf_k |-> 0, weight_fts |-> 0,
                               weight_vec |-> 0]]

SearchIdle ==
    /\ sargs = NoArgs
    /\ results = <<>>
    /\ sembed = "none"
    /\ spc = "idle"

WalkIdle ==
    /\ wargs = NoWalkArgs
    /\ current_node = NoNode
    /\ visited_nodes = {}
    /\ path = <<>>
    /\ content_history = <<>>
    /\ hop = 0
    /\ searchCalls = 0
    /\ werror = "none"
    /\ wpc = "idle"

MmrIdle ==
    /\ margs = NoMmrArgs
    /\ query_embedding = <<0, 0>>
    /\ candidates = <<>>
    /\ selected = <<>>
    /\ selected_embeddings = <<>>
    /\ visited = {}
    /\ mmr_path = <<>>
    /\ mpc = "idle"

ToolIdle ==
    /\ targs = NoToolArgs
    /\ response = NoResponse
    /\ terror = "none"
    /\ tpc = "idle"

(***************************************************************************)
(* get_neighbors on the rows of links (graph_walk.py:66-83).               *)
(***************************************************************************)
\* SELECT DISTINCT target_id FROM links WHERE source_id = ?
OutgoingTargets(rows, node_id) ==
    {rows[i][2] : i \in {j \in 1..Len(rows) : rows[j][1] = node_id}}

\* SELECT DISTINCT source_id FROM links WHERE target_id = ?
IncomingSources(rows, node_id) ==
    {rows[i][1] : i \in {j \in 1..Len(rows) : rows[j][2] = node_id}}

\* UNION ALL: the rows of both SELECTs, one after the other.
SqlUnionAll(first, second) ==
    {a \o b : a \in Perms(first), b \in Perms(second)}

\* UNION: the distinct rows of both SELECTs, in an order the statement does
\* not fix.
SqlUnion(first, second) == Perms(first \cup second)

\* The lists get_neighbors may return.
GetNeighborsOfRows(rows, node_id) ==
    SqlUnion(OutgoingTargets(rows, node_id), IncomingSources(rows, node_id))

GetNeighborsCall(node_id) ==
    /\ node_id \notin called
    /\ \E returned \in GetNeighborsOfRows(link_rows, node_id) :
          neighbor_lists' = [neighbor_lists EXCEPT ![node_id] = returned]
    /\ called' = called \cup {node_id}
    /\ UNCHANGED <<link_rows, storeVars, searchVars, walkVars, mmrVars,
                   toolVars, syncVars, connVars, sanitizeVars>>

NeighborsIdle ==
    /\ link_rows = <<>>
    /\ called = {}
    /\ neighbor_lists = [a \in Docs |-> <<>>]

(***************************************************************************)
(* The store connections of the engine calls.  A call leaves by one of its *)
(* exit paths:                                                             *)
(*   "embedding_raises"  ollama.embeddings fails, before the connection    *)
(*   "no_ids"            the early return on an empty id list              *)
(*   "load_raises"       enable_load_extension or sqlite_vec.load raises   *)
(*   "query_raises"      cursor.execute or fetching raises                 *)
(*   "returned"          the normal return                                 *)
(***************************************************************************)
\* The path reaches sqlite3.connect.
Connects(exit_path) == exit_path \notin {"embedding_raises", "no_ids"}

\* The path runs conn.close(). search_documents and get_embeddings_batch
\* load the extension between sqlite3.connect and their try/finally
\* (search.py:83-90, mmr.py:73-80); get_neighbors and get_documents_batch
\* enter try/finally right after connecting; the lookup of the walk has no
\* try/finally, its close() follows the query (graph_walk.py:245-249).
Closes(call, exit_path) ==
    CASE call \in {"search_documents", "get_embeddings_batch"} ->
            exit_path # "load_raises"
      [] call \in {"get_neighbors", "get_documents_batch"} -> TRUE
      [] call = "walk_lookup" -> exit_path = "returned"

\* One call leaving by exit_path.
EngineCall(call, exit_path) ==
    /\ Len(call_log) < MaxCalls
    /\ call_log' = Append(call_log, <<call, exit_path>>)
    /\ open_connections' =
          IF Connects(exit_path) /\ ~Closes(call, exit_path)
          THEN open_connections + 1
          ELSE open_connections
    /\ UNCHANGED <<storeVars, searchVars, walkVars, mmrVars, toolVars,
                   syncVars, neighborVars, sanitizeVars>>

\* search_documents (search.py:72-175)
SearchDocumentsExit ==
    \E exit_path \in {"embedding_raises", "load_raises", "query_raises",
                      "returned"} :
        EngineCall("search_documents", exit_path)

\* get_neighbors (graph_walk.py:68-83)
GetNeighborsExit ==
    \E exit_path \in {"query_raises", "returned"} :
        EngineCall("get_neighbors", exit_path)

\* get_embeddings_batch (mmr.py:70-94)
GetEmbeddingsBatchExit ==
    \E exit_path \in {"no_ids", "load_raises", "query_raises", "returned"} :
        EngineCall("get_embeddings_batch", exit_path)

\* get_documents_batch (mmr.py:113-132)
GetDocumentsBatchExit ==
    \E exit_path \in {"no_ids", "query_raises", "returned"} :
        EngineCall("get_documents_batch", exit_path)

\* The lookup of the best neighbor's row in recursive_graph_walk
\* (graph_walk.py:244-249)
WalkLookupExit ==
    \E exit_path \in {"query_raises", "returned"} :
        EngineCall("walk_lookup", exit_path)

ConnectionsIdle ==
    /\ open_connections = 0
    /\ call_log = <<>>

(***************************************************************************)
(* The query of the lexical method.  A text is a list of pieces separated  *)
(* by white space; the string bound to MATCH is held as its list of terms. *)
(***************************************************************************)
\* The pieces the texts are made of
Pieces == {"cat", "Cat", "the", "ab", "cat-dog"}

Texts == UNION {[1..n -> Pieces] : n \in 0..MaxTextLen}

\* max_terms of graph_walk.py:10
MaxTerms == 10

\* stop_words of graph_walk.py:25-30, as far as the pieces have them
StopWords == {"the", "and", "for"}

\* re.findall(r"\b[a-zA-Z]{3,}\b", piece.lower()): "ab" is too short, the
\* hyphen of "cat-dog" is no word character (search.py:22 replaces it by a
\* space before), a lowercase word is found as it is.
Words(piece) ==
    CASE piece \in {"cat", "Cat"} -> <<"cat">>
      [] piece = "ab" -> <<>>
      [] piece = "cat-dog" -> <<"cat", "dog">>
      [] OTHER -> <<piece>>

\* The words of a text, in order (search.py:25, graph_walk.py:22)
RECURSIVE FindWords(_)
FindWords(t) ==
    IF t = <<>> THEN <<>> ELSE Words(Head(t)) \o FindWords(Tail(t))

\* sanitize_fts5_query of search.py: every word found, each in double
\* quotes, or the placeholder "document" (search.py:10-31)
SearchSanitize(t) ==
    IF FindWords(t) = <<>> THEN <<"document">> ELSE FindWords(t)

\* The loop of graph_walk.py:33-40
RECURSIVE MeaningfulWords(_, _, _)
MeaningfulWords(words, seen, max_terms) ==
    IF words = <<>> THEN <<>>
    ELSE IF Head(words) \notin StopWords /\ Head(words) \notin seen
    THEN IF max_terms <= 1 THEN <<Head(words)>>
         ELSE <<Head(words)>>
                  \o MeaningfulWords(Tail(words), seen \cup {Head(words)},
                                     max_terms - 1)
    ELSE MeaningfulWords(Tail(words), seen, max_terms)

\* sanitize_fts5_query of graph_walk.py: the words joined by spaces, a text
\* again (graph_walk.py:10-43)
WalkSanitize(t, max_terms) ==
    LET meaningful_words == MeaningfulWords(FindWords(t), {}, max_terms)
    IN  IF meaningful_words = <<>> THEN <<"document">> ELSE meaningful_words

\* search_documents called with the text (search.py:94-95, :147)
SearchDocumentsSanitizes ==
    /\ sanpc = "idle"
    /\ fts_query' = SearchSanitize(text)
    /\ sanpc' = "search"
    /\ UNCHANGED <<text, storeVars, searchVars, walkVars, mmrVars, toolVars,
                   syncVars, neighborVars, connVars>>

\* score_neighbors_multi_query with the text as a query: search_documents is
\* called with the sanitized text (graph_walk.py:122-128)
ScoreNeighborsSanitizes ==
    /\ sanpc = "idle"
    /\ fts_query' = SearchSanitize(WalkSanitize(text, MaxTerms))
    /\ sanpc' = "walk"
    /\ UNCHANGED <<text, storeVars, searchVars, walkVars, mmrVars, toolVars,
                   syncVars, neighborVars, connVars>>

SanitizeIdle ==
    /\ text = <<>>
    /\ fts_query = <<>>
    /\ sanpc = "idle"

HelpersIdle ==
    /\ NeighborsIdle
    /\ ConnectionsIdle
    /\ SanitizeIdle

\* No sync runs and no file is read: the search and the walks use the content
\* of a row only as query text.
SyncIdle ==
    /\ files = [d \in Docs |-> NoFile]
    /\ content = [d \in Docs |-> NoContent]
    /\ embedded_content = [d \in Docs |-> NoContent]
    /\ docs_needing_embeddings = {}
    /\ generated = [d \in Docs |-> 0]
    /\ vec_inserts = [d \in Docs |-> 0]
    /\ counts = NoCounts
    /\ run_start = NoRun
    /\ syncpc = "idle"

\* The vault_vec rows of a store whose vector ranking is vb.
EmbeddingOf(vb, v) ==
    [d \in Docs |-> IF d \in Range(vb) \cap v THEN <<5, 0>> ELSE NoEmbedding]

SearchInit ==
    /\ vault = Docs
    /\ links = {}
    /\ \E fb \in IndexLists, vb \in IndexLists :
          /\ ftsIndex = FtsIndexOf(fb, Docs)
          /\ vecIndex = VecIndexOf(vb, Docs)
          /\ embedding = EmbeddingOf(vb, Docs)
    /\ SearchIdle
    /\ WalkIdle
    /\ MmrIdle
    /\ ToolIdle
    /\ HelpersIdle
    /\ SyncIdle

SearchCall ==
    \E k \in 1..MaxK, rrf_k \in RrfKSet, w \in WeightPairs, limit \in LimitSet :
        SearchDocuments(OriginalPrompt, k, rrf_k, w[1], w[2], limit)

\* The failing calls are made with the default weights and rrf_k.
SearchCallFails ==
    \E k \in 1..MaxK, outcome \in EmbeddingOutcomes \ {"ok"} :
        SearchDocumentsFails(OriginalPrompt, k, 60, 1, 1, MaxK, outcome)

SearchNext == SearchCall \/ SearchCallFails

(***************************************************************************)
(* The stores and arguments the walks are checked on.                      *)
(***************************************************************************)
\* The link rows a store may hold: a chain 1 - 2 - 3, a link in both
\* directions, a self-link, and a link from the last document back to the
\* first (a cycle).
LinkPool == {<<1, 2>>, <<2, 1>>, <<2, 3>>, <<1, 1>>, <<NumDocs, 1>>}

\* A store after a sync, or between the commits of a sync that deleted the
\* last document (sync.py:133, :160): its vault, fts and vec rows are gone,
\* the links to it are still there until links are rebuilt (sync.py:234).
VaultStates == {Docs, Docs \ {NumDocs}}

\* <<lexical base ranking, vector base ranking>>
IndexPairs ==
    {<< <<>>, <<>> >>, << <<1, 2>>, <<2, 1>> >>, << <<2, 3>>, <<>> >>,
     << <<>>, <<3, 2>> >>, << <<1>>, <<1, 3>> >>, << <<3, 1>>, <<2, 3>> >>}

\* rrf_params of graph_walk.py:206; k is bounded by MaxK.
DefaultRrfParams == [k |-> MaxK, rrf_k |-> 60, weight_fts |-> 1, weight_vec |-> 1]

\* query_weights: the default [0.7, 0.3], one weight, three weights.
QueryWeightLists == {<<7, 3>>, <<10>>, <<5, 3, 2>>}

\* score_threshold: -1.0, 0.0, 0.01 (server.py:94)
ThresholdSet == {-100, 0, 1}

WalkInit ==
    /\ vault \in VaultStates
    /\ links \in SUBSET LinkPool
    /\ \E ip \in IndexPairs :
          /\ ftsIndex = FtsIndexOf(ip[1], vault)
          /\ vecIndex = VecIndexOf(ip[2], vault)
          /\ embedding = EmbeddingOf(ip[2], vault)
    /\ SearchIdle
    /\ WalkIdle
    /\ MmrIdle
    /\ ToolIdle
    /\ HelpersIdle
    /\ SyncIdle

WalkCall ==
    \E seed_results \in {<<>>} \cup {<<SeedResult(d)>> : d \in vault},
       max_hops \in 0..MaxHops, score_threshold \in ThresholdSet,
       query_weights \in QueryWeightLists :
        RecursiveGraphWalk(seed_results, max_hops, score_threshold,
                           query_weights, DefaultRrfParams)

\* A SearchResult built from a caller's seed_documents entry, with the
\* combined_score the caller gave it (server.py:163-178).
ScoredSeed(d, combined_rank) ==
    [id |-> d, content |-> d, combined_rank |-> combined_rank]

\* Caller-supplied seed lists of two documents: sorted by descending score,
\* sorted by ascending score, equal scores.
ScoredSeedLists ==
    {<<ScoredSeed(1, 2), ScoredSeed(2, 1)>>,
     <<ScoredSeed(1, 1), ScoredSeed(2, 2)>>,
     <<ScoredSeed(2, 1), ScoredSeed(1, 1)>>}

\* A walk from a caller's seed list, with the default weights.
WalkCallScoredSeeds ==
    \E seed_results \in ScoredSeedLists, max_hops \in {1, MaxHops} :
        RecursiveGraphWalk(seed_results, max_hops, 0, <<7, 3>>,
                           DefaultRrfParams)

\* A walk called with query_weights = [].
WalkCallNoWeights ==
    \E d \in vault, score_threshold \in {0, 1} :
        RecursiveGraphWalk(<<SeedResult(d)>>, MaxHops, score_threshold, <<>>,
                           DefaultRrfParams)

WalkNext ==
    \/ WalkCall
    \/ WalkCallScoredSeeds
    \/ WalkCallNoWeights
    \/ WalkNoNeighbors
    \/ WalkBelowThreshold
    \/ WalkRowMissing
    \/ WalkHop
    \/ WalkSearchFails
    \/ WalkLoopEnd

(***************************************************************************)
(* The stores and arguments mmr_graph_walk is checked on.                  *)
(***************************************************************************)
\* The embeddings a document may have: none, or a vector at cosine 0.6, 1.0
\* or -1.0 to the query <<10, 0>>.
EmbeddingVectors == << <<6, 8>>, NoEmbedding, <<5, 0>>, <<-5, 0>> >>

\* The assignment number <<a, b>> of embeddings to documents: a = 0 gives
\* every document the same one, a = 2 gives documents 1 and 3 the same one.
EmbeddingAssignment(a, b, v) ==
    [d \in Docs |-> IF d \in v THEN EmbeddingVectors[((a * d + b) % 4) + 1]
                    ELSE NoEmbedding]

\* The assignments used: all with a = 1 or a = 2, and the one that gives no
\* document an embedding.
AssignmentNumbers == ({1, 2} \X (0..3)) \cup {<<0, 1>>}

MmrLinkPool == {<<1, 2>>, <<2, 3>>, <<1, 1>>, <<NumDocs, 1>>}

MmrInit ==
    /\ vault \in VaultStates
    /\ links \in SUBSET MmrLinkPool
    /\ \E ab \in AssignmentNumbers :
          embedding = EmbeddingAssignment(ab[1], ab[2], vault)
    /\ ftsIndex = [q \in Queries |-> <<>>]
    /\ vecIndex = [q \in Queries |-> EmbeddedDocs(embedding, NumDocs)]
    /\ SearchIdle
    /\ WalkIdle
    /\ MmrIdle
    /\ ToolIdle
    /\ HelpersIdle
    /\ SyncIdle

\* lambda_mult: 0.0, 0.5 (the default), 1.0
LambdaSet == {0, 1, 2}
\* min_mmr_score: -1.0, 0.0
MinMmrScoreSet == {-200, 0}
\* seed_results: none, two seeds, more seeds than the three that are used
SeedLists == {<<>>, <<SeedResult(2), SeedResult(1)>>,
              <<SeedResult(1), SeedResult(2), SeedResult(3), SeedResult(3)>>}
QueryEmbeddings == {<<10, 0>>}

MmrCall ==
    \E seed_results \in SeedLists, query \in QueryEmbeddings,
       lambda_mult \in LambdaSet, select_k \in {0, 1, MaxSelectK},
       adjacent_k \in 1..2, max_depth \in {0, MaxDepth},
       min_mmr_score \in MinMmrScoreSet :
        MmrGraphWalk(seed_results, query, lambda_mult, select_k, adjacent_k,
                     max_depth, min_mmr_score)

\* Four seeds, the first a search result whose document has since been
\* deleted from the store (its id is none of the store's).
StaleSeedList ==
    <<SeedResult(NumDocs + 1), SeedResult(1), SeedResult(2), SeedResult(3)>>

MmrCallStaleSeed ==
    \E query \in QueryEmbeddings, lambda_mult \in {LambdaUnit} :
        MmrGraphWalk(StaleSeedList, query, lambda_mult, MaxSelectK, 1, 0, -200)

\* A walk from one seed that may expand the neighbors of the seed too, with
\* one neighbor kept per expansion.
MmrCallDeep ==
    \E query \in QueryEmbeddings, lambda_mult \in {LambdaUnit} :
        MmrGraphWalk(<<SeedResult(1)>>, query, lambda_mult, MaxSelectK, 1,
                     MaxDepth + 1, -200)

\* Seeds that name a document twice
RepeatedSeedList == <<SeedResult(1), SeedResult(1), SeedResult(2)>>

MmrCallRepeatedSeed ==
    \E query \in QueryEmbeddings, lambda_mult \in {1, LambdaUnit} :
        MmrGraphWalk(RepeatedSeedList, query, lambda_mult, MaxSelectK, 1,
                     MaxDepth, -200)

MmrNext ==
    \/ MmrCall
    \/ MmrCallStaleSeed
    \/ MmrCallDeep
    \/ MmrCallRepeatedSeed
    \/ MmrBelowMinScore
    \/ MmrSelect
    \/ MmrLoopEnd

(***************************************************************************)
(* The stores and arguments the graph_walk tool is checked on.             *)
(***************************************************************************)
ToolInit == WalkInit

\* seed_limit: 1, and the tool's default 3
ToolCallWithSeeds ==
    \E seed_documents \in {<<1>>, <<2, 1>>}, use_mmr \in BOOLEAN :
        GraphWalkToolWithSeeds(seed_documents, use_mmr)

ToolCallSearching ==
    \E use_mmr \in BOOLEAN, k \in 1..MaxK, seed_limit \in {1, 3} :
        GraphWalkToolSearching(use_mmr, k, seed_limit)

ToolCallSearchFails ==
    \E use_mmr \in BOOLEAN, k \in 1..MaxK, seed_limit \in {1, 3} :
        GraphWalkToolSearchFails(use_mmr, k, seed_limit)

ToolNext == ToolCallWithSeeds \/ ToolCallSearching \/ ToolCallSearchFails

(***************************************************************************)
(* The stores and vault directories sync_vault_to_database is checked on.  *)
(***************************************************************************)
\* The rows of vault and the files of the directory
SyncDocSets == {Docs, Docs \ {NumDocs}, Docs \ {1}, {}}

\* The title of the file the user edits between two runs
EditedDoc == 2

\* The wiki links written in the contents, as <<source, target title>>
WikiLinksFrom(written, d) == {l[2] : l \in {w \in written : w[1] = d}}

\* A store as a completed sync leaves it: a vault_fts row for every row, an
\* embedding for every row of 10 characters or more, the links of the
\* contents. The directory: files added and removed since, and file 2
\* possibly rewritten with other links and another length.
SyncInit ==
    /\ vault \in SyncDocSets
    /\ \E written \in SUBSET LinkPool, short \in {{}, {1}},
          onDisk \in SyncDocSets, modified \in BOOLEAN,
          newLinks \in {{}, {1, 3}}, newLong \in BOOLEAN :
          /\ content = [d \in Docs |->
                           IF d \in vault
                           THEN [present |-> TRUE, modified_at |-> 1,
                                 long |-> d \notin short,
                                 links |-> WikiLinksFrom(written, d)]
                           ELSE NoContent]
          /\ files = [d \in Docs |->
                         IF d \notin onDisk THEN NoFile
                         ELSE IF d = 2 /\ d \in vault /\ modified
                         THEN [present |-> TRUE, modified_at |-> 2,
                               long |-> newLong, links |-> newLinks]
                         ELSE [present |-> TRUE, modified_at |-> 1,
                               long |-> d \notin short,
                               links |-> WikiLinksFrom(written, d)]]
    /\ links = ExtractedLinks
    /\ embedding = [d \in Docs |-> GenerateEmbedding(content[d])]
    /\ embedded_content = [d \in Docs |->
                              IF content[d].long THEN content[d] ELSE NoContent]
    /\ ftsIndex = [q \in Queries |-> VaultRows(vault, NumDocs)]
    /\ vecIndex = [q \in Queries |-> EmbeddedDocs(embedding, NumDocs)]
    /\ docs_needing_embeddings = {}
    /\ generated = [d \in Docs |-> 0]
    /\ vec_inserts = [d \in Docs |-> 0]
    /\ counts = NoCounts
    /\ run_start = NoRun
    /\ syncpc = "idle"
    /\ SearchIdle
    /\ WalkIdle
    /\ MmrIdle
    /\ ToolIdle
    /\ HelpersIdle

\* The files the user writes between two runs
EditFile ==
    \/ \E long \in BOOLEAN, wiki_links \in {{}, {1}} :
          WriteFile(EditedDoc, long, wiki_links)
    \/ RemoveFile(EditedDoc)

SyncNext ==
    \/ SyncDocuments
    \/ SyncEmbeddings
    \/ SyncEmbeddingsRaises
    \/ SyncLinks
    \/ EditFile

\* get_neighbors called once per node on a links table with repeated and
\* reciprocal rows
RowPool == {<<1, 2>>, <<2, 1>>, <<1, 1>>, <<2, 3>>}

LinkRowLists == UNION {[1..n -> RowPool] : n \in 0..MaxLinkRows}

\* A store without index rows, for the calls that read links only
HelperInit ==
    /\ vault = Docs
    /\ ftsIndex = [q \in Queries |-> <<>>]
    /\ vecIndex = [q \in Queries |-> <<>>]
    /\ embedding = [d \in Docs |-> NoEmbedding]
    /\ SearchIdle
    /\ WalkIdle
    /\ MmrIdle
    /\ ToolIdle
    /\ SyncIdle

NeighborsInit ==
    /\ HelperInit
    /\ link_rows \in LinkRowLists
    /\ links = Range(link_rows)
    /\ called = {}
    /\ neighbor_lists = [a \in Docs |-> <<>>]
    /\ ConnectionsIdle
    /\ SanitizeIdle

NeighborsNext == \E node_id \in Docs : GetNeighborsCall(node_id)

ConnectionsInit ==
    /\ HelperInit
    /\ links = {}
    /\ NeighborsIdle
    /\ ConnectionsIdle
    /\ SanitizeIdle

ConnectionsNext ==
    \/ SearchDocumentsExit
    \/ GetNeighborsExit
    \/ GetEmbeddingsBatchExit
    \/ GetDocumentsBatchExit
    \/ WalkLookupExit

SanitizeInit ==
    /\ HelperInit
    /\ links = {}
    /\ NeighborsIdle
    /\ ConnectionsIdle
    /\ text \in Texts
    /\ fts_query = <<>>
    /\ sanpc = "idle"

SanitizeNext == SearchDocumentsSanitizes \/ ScoreNeighborsSanitizes

vars == <<storeVars, searchVars, walkVars, mmrVars, toolVars, syncVars,
         helperVars>>

SpecSearch == SearchInit /\ [][SearchNext]_vars

SpecWalk == WalkInit /\ [][WalkNext]_vars

SpecMMR == MmrInit /\ [][MmrNext]_vars

SpecTool == ToolInit /\ [][ToolNext]_vars

SpecSync == SyncInit /\ [][SyncNext]_vars

SpecNeighbors == NeighborsInit /\ [][NeighborsNext]_vars

SpecConnections == ConnectionsInit /\ [][ConnectionsNext]_vars

SpecSanitize == SanitizeInit /\ [][SanitizeNext]_vars

\* One invocation of either walk on a store with links and embeddings.
Next == WalkNext \/ MmrNext

Spec == MmrInit /\ [][Next]_vars

(***************************************************************************)
(* Properties of search_documents (checked under SpecSearch).              *)
(***************************************************************************)
\* What the two methods' candidate lists of the finished call hold, read
\* from the store: the 1-based place of document d, Absent if it is in none.
FtsRankOf(d) == Position(Take(ftsIndex[sargs.query], sargs.k), d)
VecRankOf(d) == Position(Take(vecIndex[sargs.query], sargs.k), d)

\* r.combined_rank / Unit = wf / (rrf_k + fr) + wv / (rrf_k + vr), a term
\* being 0 when its rank is Absent; cross-multiplied to stay in integers.
FusedScoreIs(r, rrf_k, wf, wv, fr, vr) ==
    LET fden == IF fr = Absent THEN 1 ELSE rrf_k + fr
        fnum == IF fr = Absent THEN 0 ELSE wf
        vden == IF vr = Absent THEN 1 ELSE rrf_k + vr
        vnum == IF vr = Absent THEN 0 ELSE wv
    IN  r.combined_rank * fden * vden = Unit(rrf_k) * (fnum * vden + vnum * fden)

\* C4: every returned document's combined_rank is
\* weight_fts/(rrf_k + fts_rank) + weight_vec/(rrf_k + vec_rank), the term of
\* a method whose list lacks the document being 0; with rrf_k = 60, both
\* weights 1, lexical rank 1 and no vector rank it is exactly 1/61.
C4_FusedScoreFormula ==
    spc = "returned" =>
        \A i \in 1..Len(results) :
            LET r == results[i]
            IN  /\ r.fts_rank = FtsRankOf(r.id)
                /\ r.vec_rank = VecRankOf(r.id)
                /\ FusedScoreIs(r, sargs.rrf_k, sargs.weight_fts,
                                sargs.weight_vec, FtsRankOf(r.id), VecRankOf(r.id))
                /\ (/\ sargs.rrf_k = 60
                    /\ sargs.weight_fts = 1 /\ sargs.weight_vec = 1
                    /\ FtsRankOf(r.id) = 1 /\ VecRankOf(r.id) = Absent)
                   => r.combined_rank * 61 = Unit(60)

\* A call with rrf_k = 60 and weights 1 that returned a document of lexical
\* rank 1 absent from the vector list, and one ranked by both methods.
C4_Witness ==
    /\ spc = "returned"
    /\ sargs.rrf_k = 60 /\ sargs.weight_fts = 1 /\ sargs.weight_vec = 1
    /\ \E i, j \in 1..Len(results) :
          /\ results[i].fts_rank = 1 /\ results[i].vec_rank = Absent
          /\ results[j].fts_rank # Absent /\ results[j].vec_rank # Absent

\* The candidates in the order the documentation promises: fused score
\* descending, ties by ascending id.
ScoreThenIdOrder(rows) ==
    CHOOSE s \in Perms(rows) :
        \A i, j \in 1..Len(s) :
            i < j => \/ s[i].combined_rank > s[j].combined_rank
                     \/ /\ s[i].combined_rank = s[j].combined_rank
                        /\ s[i].id < s[j].id

\* C5: the returned list is the first min(limit, number of candidates)
\* candidates in the order fused score descending, ties by ascending id.
C5_TiesByAscendingId ==
    spc = "returned" =>
        results = Take(ScoreThenIdOrder(
                           FinalRows(sargs.query, sargs.k, sargs.rrf_k,
                                     sargs.weight_fts, sargs.weight_vec)),
                       sargs.limit)

\* C6: for non-negative weights every returned combined_rank lies in
\* [0, weight_fts/(rrf_k+1) + weight_vec/(rrf_k+1)], and every returned
\* document is in the candidate list of at least one method.
C6_ScoreBounds ==
    (spc = "returned" /\ sargs.weight_fts >= 0 /\ sargs.weight_vec >= 0) =>
        \A i \in 1..Len(results) :
            LET r == results[i]
            IN  /\ r.combined_rank >= 0
                /\ r.combined_rank * (sargs.rrf_k + 1)
                      <= (sargs.weight_fts + sargs.weight_vec) * Unit(sargs.rrf_k)
                /\ (r.fts_rank # Absent \/ r.vec_rank # Absent)
                /\ (FtsRankOf(r.id) # Absent \/ VecRankOf(r.id) # Absent)

\* A call with positive weights that returned a document ranked first by both
\* methods (the upper bound is met) and left out a document of the vault that
\* neither method listed although the limit had room for it.
C6_Witness ==
    /\ spc = "returned"
    /\ sargs.weight_fts > 0 /\ sargs.weight_vec > 0
    /\ \E i \in 1..Len(results) :
          /\ results[i].fts_rank = 1 /\ results[i].vec_rank = 1
          /\ results[i].combined_rank * (sargs.rrf_k + 1)
                = (sargs.weight_fts + sargs.weight_vec) * Unit(sargs.rrf_k)
    /\ Len(results) < sargs.limit
    /\ \E d \in vault :
          /\ FtsRankOf(d) = Absent /\ VecRankOf(d) = Absent
          /\ \A i \in 1..Len(results) : results[i].id # d

\* Rank x is at least as good as rank y (an absent rank is the worst).
RankAtLeastAsGood(x, y) == y = Absent \/ (x # Absent /\ x <= y)
RankBetter(x, y) == RankAtLeastAsGood(x, y) /\ x # y

\* Document a is ranked at least as well as b by both methods and strictly
\* better by one of them.
Dominates(a, b) ==
    /\ RankAtLeastAsGood(FtsRankOf(a), FtsRankOf(b))
    /\ RankAtLeastAsGood(VecRankOf(a), VecRankOf(b))
    /\ (RankBetter(FtsRankOf(a), FtsRankOf(b)) \/ RankBetter(VecRankOf(a), VecRankOf(b)))

\* C7: for non-negative weights, a returned document that dominates another
\* returned document has a fused score at least as high, and comes first when
\* its score is strictly higher.
C7_RankMonotonicity ==
    (spc = "returned" /\ sargs.weight_fts >= 0 /\ sargs.weight_vec >= 0) =>
        \A i, j \in 1..Len(results) :
            Dominates(results[i].id, results[j].id) =>
                /\ results[i].combined_rank >= results[j].combined_rank
                /\ results[i].combined_rank > results[j].combined_rank => i < j

\* A call with positive weights that returned a document tying with another
\* in one method and beating it in the other, with a strictly higher score.
C7_Witness ==
    /\ spc = "returned"
    /\ sargs.weight_fts > 0 /\ sargs.weight_vec > 0
    /\ \E i, j \in 1..Len(results) :
          /\ Dominates(results[i].id, results[j].id)
          /\ FtsRankOf(results[i].id) = FtsRankOf(results[j].id)
          /\ results[i].combined_rank > results[j].combined_rank


(***************************************************************************)
(* Claims about the walks.                                                 *)
(***************************************************************************)
C1_Bounded ==
    /\ wpc # "idle" => hop <= wargs.max_hops /\ Len(path) <= wargs.max_hops
    /\ mpc # "idle" => /\ Len(selected) <= margs.select_k
                       /\ Len(mmr_path) <= margs.select_k
                       /\ Len(mmr_path) = Len(selected)

C1_Progress ==
    /\ wpc = "loop" => wpc' = "returned" \/ hop' = hop + 1
    /\ mpc = "loop" => mpc' = "returned" \/ Len(selected') = Len(selected) + 1

\* C1: whatever the graph, the seeds and the thresholds, recursive_graph_walk
\* runs at most max_hops iterations and returns at most max_hops WalkSteps,
\* and mmr_graph_walk makes at most select_k selections and returns at most
\* select_k WalkSteps: the counts never pass the limits, and every step of a
\* running walk either returns or adds one to its count.
C1_WalksAreBounded == []C1_Bounded /\ [][C1_Progress]_vars

\* C1 witness: with a negative score_threshold the recursive walk has used
\* all of its max_hops iterations and returned max_hops WalkSteps.
C1_Witness ==
    /\ wpc = "returned"
    /\ wargs.score_threshold < 0
    /\ wargs.max_hops = MaxHops
    /\ hop = MaxHops
    /\ Len(path) = MaxHops

PathIds == {path[i].id : i \in 1..Len(path)}

\* C2: the ids of the WalkSteps of recursive_graph_walk's path are pairwise
\* distinct and none is the id of the seed the walk started from, on every
\* graph (cycles, self-links, links in both directions).
C2_NeverRevisits ==
    wpc # "idle" /\ wargs.seed_results # <<>> =>
        /\ \A i, j \in 1..Len(path) : i # j => path[i].id # path[j].id
        /\ wargs.seed_results[1].id \notin PathIds

\* C2 witness: a walk of two hops from document 1 on a graph where 1 links
\* to itself and 1 and 2 link to each other.
C2_Witness ==
    /\ wpc = "returned"
    /\ {<<1, 1>>, <<1, 2>>, <<2, 1>>} \subseteq links
    /\ Len(path) = 2
    /\ wargs.seed_results[1].id = 1

SeedHasNoNeighbors ==
    /\ wargs.seed_results # <<>>
    /\ NeighborSet(wargs.seed_results[1].id) = {}

\* C3: when the seed has no incoming and no outgoing link, the walk returns
\* an empty path and has made no search_documents call.
C3_NoNeighborTermination ==
    wpc # "idle" /\ SeedHasNoNeighbors =>
        /\ path = <<>>
        /\ searchCalls = 0
        /\ wpc = "returned" => hop <= 1

\* C3 witness: a walk with max_hops >= 1 has returned from a seed without
\* neighbors in a store that has links between other documents.
C3_Witness ==
    /\ wpc = "returned"
    /\ SeedHasNoNeighbors
    /\ wargs.max_hops >= 1
    /\ hop = 1
    /\ links # {}

Frontier == Range(candidates)

\* A step of the walk that selects a candidate, and the candidate it selects.
Selects == Len(selected') = Len(selected) + 1

Picked == CHOOSE c \in Frontier : c.id = selected'[Len(selected')][1]

\* C8: a selection step leaves the max_redundancy of every candidate that
\* stays in the frontier at or above its value before the step.
C8_RedundancyNeverDecreases ==
    [][\A c \in Frontier : \A i \in 1..Len(candidates') :
          candidates'[i].id = c.id =>
              candidates'[i].max_redundancy >= c.max_redundancy]_vars

\* C8 witness: after two selections a seed still in the frontier has a
\* max_redundancy above its cosine to the node selected last.
C8_Witness ==
    /\ Len(selected) >= 2
    /\ \E c \in Frontier :
          /\ c.depth = 0
          /\ c.max_redundancy >
                CosineSimilarity(c.embedding,
                                 selected_embeddings[Len(selected_embeddings)])

StepSimilarity(i) == mmr_path[i].query_scores[1].rrf_score

\* C9 as stated: with lambda_mult = 1.0 every WalkStep's similarity is at
\* least the similarity of the WalkStep after it.
C9_PathInDescendingSimilarity ==
    margs.lambda_mult = LambdaUnit =>
        \A i \in 1..(Len(mmr_path) - 1) : StepSimilarity(i) >= StepSimilarity(i + 1)

\* C9 amended: with lambda_mult = 1.0 every selection takes a candidate whose
\* similarity is the largest among the candidates the frontier holds at that
\* step.
C9_SelectsMostSimilarOfFrontier ==
    [][margs.lambda_mult = LambdaUnit /\ mpc = "loop" /\ Selects =>
          \A c \in Frontier : Picked.similarity >= c.similarity]_vars

\* C9 witness: with lambda_mult = 1.0 the second WalkStep is a neighbor found
\* by expanding the first, and more similar to the query than the first.
C9_Witness ==
    /\ margs.lambda_mult = LambdaUnit
    /\ Len(mmr_path) = 2
    /\ mmr_path[2].distance_from_seed = 1
    /\ StepSimilarity(1) < StepSimilarity(2)

IdenticalToSelected(c) ==
    \E i \in 1..Len(selected_embeddings) :
        CosineSimilarity(c.embedding, selected_embeddings[i]) = CosUnit

\* A candidate with positive similarity and strictly lower max_redundancy
\* than x.
AlternativeTo(x, y) ==
    y.max_redundancy < x.max_redundancy /\ y.similarity > 0

\* An iteration begins with lambda_mult = 0.0 and a frontier that holds a
\* node identical to a selected one and an alternative to it.
IdenticalAndAlternative ==
    /\ margs.lambda_mult = 0
    /\ mpc = "loop" /\ WhileCondition
    /\ \E x, y \in Frontier : IdenticalToSelected(x) /\ AlternativeTo(x, y)

\* C10 as stated: at such a step the walk selects an alternative, not a node
\* identical to a selected one.
C10_AlternativeIsSelected ==
    [][IdenticalAndAlternative =>
          /\ Selects
          /\ ~IdenticalToSelected(Picked)
          /\ \E x \in Frontier : IdenticalToSelected(x) /\ AlternativeTo(x, Picked)]_vars

\* C10 amended: at such a step the walk never selects a node identical to a
\* selected one: it stops without a selection, or selects a candidate whose
\* max_redundancy is the lowest of the frontier.
C10_IdenticalIsNotSelected ==
    [][IdenticalAndAlternative =>
          \/ ~Selects /\ mpc' = "returned"
          \/ /\ Selects
             /\ ~IdenticalToSelected(Picked)
             /\ \A c \in Frontier : Picked.max_redundancy <= c.max_redundancy]_vars

\* C10 witness: with lambda_mult = 0.0 the second selection took a seed of
\* positive similarity and redundancy below 1.0 while a seed identical to
\* the first selection stays in the frontier.
C10_Witness ==
    /\ margs.lambda_mult = 0
    /\ Len(selected) = 2
    /\ StepSimilarity(2) > 0
    /\ mmr_path[2].query_scores[2].rrf_score > 0
    /\ \E x \in Frontier :
          /\ x.depth = 0
          /\ CosineSimilarity(x.embedding, selected_embeddings[1]) = CosUnit

\* C11: the k-th WalkStep of recursive_graph_walk's path has
\* distance_from_seed = k.
C11_DistanceIsPosition ==
    \A i \in 1..Len(path) : path[i].distance_from_seed = i

\* C11 witness: on a store with the chain 1 - 2 - 3, seed 1, max_hops = 2 and
\* score_threshold = 0 the walk returned 2 then 3 at distances 1 and 2.
C11_Witness ==
    /\ wpc = "returned"
    /\ {<<1, 2>>, <<2, 3>>} \subseteq links
    /\ Len(path) = 2
    /\ wargs.seed_results[1].id = 1
    /\ wargs.max_hops = 2 /\ wargs.score_threshold = 0
    /\ path[1].id = 2 /\ path[1].distance_from_seed = 1
    /\ path[2].id = 3 /\ path[2].distance_from_seed = 2

\* C12: whenever the query embedding cannot be generated (service error, empty
\* embedding, embedding of another length than 768) search_documents ends
\* with an exception and returns no list.
C12_EmbeddingFailureRaises ==
    sembed \notin {"none", "ok"} => spc = "raised" /\ results = <<>>

\* C12 witness: a call on a store whose lexical index matches the query has
\* raised on an embedding of the wrong length.
C12_Witness ==
    /\ sembed = "wrong_length"
    /\ spc = "raised"
    /\ ftsIndex[sargs.query] # <<>>

\* C13: when a call made by the walk fails after at least one WalkStep was
\* appended, the walk returns the steps accumulated so far.
C13_PartialPathReturned ==
    werror # "none" /\ Len(path) >= 1 => wpc = "returned"


(***************************************************************************)
(* Properties of the graph_walk tool (checked under SpecTool).             *)
(***************************************************************************)
\* The seeds the finished call had: its seed_documents or the rows it found.
ToolHadSeeds ==
    \/ targs.seed_documents # <<>>
    \/ /\ terror # "RuntimeError"
       /\ FinalRows(OriginalPrompt, targs.k, 60, 1, 1) # {}
       /\ targs.seed_limit > 0

\* C14: a call of the graph_walk tool that has ended without a walk step
\* (no seeds, or seeds and a walk that selected no document) has returned a
\* response whose walk_path is empty and which carries a reason.
C14_EmptyPathCarriesReason ==
    tpc \in {"returned", "raised"} /\ terror # "RuntimeError" =>
        /\ response.returned
        /\ response.walk_path = <<>> => "error" \in DOMAIN response

\* C15: a call of the graph_walk tool with non-empty seeds reaches the walk
\* and returns its path; it does not fail before the walk starts.
C15_CallReachesTheWalk ==
    tpc # "idle" /\ ToolHadSeeds => tpc \in {"walking", "returned"}

\* C16: a search called with a negative fusion weight is rejected, or
\* returns what the call with the weight clamped to 0 returns; no result is
\* computed from the negative weight itself (checked under SpecSearch).
C16_OutOfRangeRejectedOrClamped ==
    /\ spc # "idle"
    /\ sembed = "ok"
    /\ sargs.weight_fts < 0 \/ sargs.weight_vec < 0
    => \/ spc = "raised"
       \/ results \in SearchOutcomes(sargs.query, sargs.k, sargs.rrf_k,
                                     Max(0, sargs.weight_fts),
                                     Max(0, sargs.weight_vec), sargs.limit)

(***************************************************************************)
(* Properties of sync_vault_to_database (checked under SpecSync).          *)
(***************************************************************************)
\* C17: in every store state a reader can observe, that is after each
\* commit of a sync, the source and the target of every stored link are ids
\* of existing documents.
C17_LinksPointToDocuments ==
    \A l \in links : l[1] \in vault /\ l[2] \in vault

(***************************************************************************)
(* Properties of both walks (checked under Spec).                          *)
(***************************************************************************)
\* The neighbors the iteration at the loop head scores, and the best score.
UnvisitedHere ==
    UnvisitedNeighbors(CHOOSE n \in GetNeighbors(current_node.id) : TRUE)

BestScoreHere ==
    LET neighbor_scores == HopScores(UnvisitedHere)
    IN  neighbor_scores[BestNeighbor(UnvisitedHere, neighbor_scores)].combined_score

ReachesThreshold(score) ==
    score * ThresholdUnit
        >= wargs.score_threshold * WeightUnit * Unit(wargs.rrf_params.rrf_k)

BestMmrScoreHere ==
    MmrScore(candidates[BestCandidate(candidates, margs.lambda_mult)],
             margs.lambda_mult)

C18_StepsReachThreshold ==
    /\ \A i \in 1..Len(path) : ReachesThreshold(path[i].combined_score)
    /\ \A i \in 1..Len(mmr_path) :
          mmr_path[i].combined_score >= margs.min_mmr_score

C18_StopsBelowThreshold ==
    /\ /\ wpc = "loop" /\ hop < wargs.max_hops /\ UnvisitedHere # <<>>
       /\ werror' = "none"
       /\ ~ReachesThreshold(BestScoreHere)
       => path' = path /\ wpc' = "returned"
    /\ /\ mpc = "loop" /\ WhileCondition
       /\ BestMmrScoreHere < margs.min_mmr_score
       => mmr_path' = mmr_path /\ mpc' = "returned"
    /\ wpc = "returned" => path' = path
    /\ mpc = "returned" => mmr_path' = mmr_path

\* C18: every step of the path of recursive_graph_walk has a combined score
\* of at least score_threshold and every step of the path of mmr_graph_walk
\* one of at least min_mmr_score; an iteration whose best candidate scores
\* below the threshold ends the walk and appends nothing, and nothing is
\* appended after the walk has ended.
C18_ThresholdIsEnforced ==
    []C18_StepsReachThreshold /\ [][C18_StopsBelowThreshold]_vars

\* A recursive walk that took one step and ended in its second iteration
\* on a best neighbor below the threshold 0.01.
C18_Witness ==
    /\ wpc = "returned"
    /\ Len(path) = 1
    /\ hop = 2
    /\ wargs.score_threshold = 1
    /\ UnvisitedHere # <<>>
    /\ ~ReachesThreshold(BestScoreHere)
    /\ ReachesThreshold(path[1].combined_score)

(***************************************************************************)
(* The choice among equal scores.                                          *)
(***************************************************************************)
\* The unvisited neighbors with the maximum combined score
BestNeighborsHere ==
    LET neighbor_scores == HopScores(UnvisitedHere)
    IN  {n \in Range(UnvisitedHere) :
            \A m \in Range(UnvisitedHere) :
                neighbor_scores[m].combined_score
                    <= neighbor_scores[n].combined_score}

C19_Step ==
    Len(path') = Len(path) + 1 =>
        /\ path'[Len(path')].id \in BestNeighborsHere
        /\ \A n \in BestNeighborsHere : path'[Len(path')].id <= n

\* C19: the neighbor a hop of recursive_graph_walk appends has the maximum
\* combined score among the unvisited neighbors of the current node, and
\* the smallest id of those with that score, in whatever order the store
\* returned the neighbors (checked under SpecWalk).
C19_SmallestIdAmongBest == [][C19_Step]_vars

C20_Step ==
    mpc = "loop" /\ Selects =>
        \A c \in Frontier :
            /\ MmrScore(c, margs.lambda_mult)
                  <= MmrScore(Picked, margs.lambda_mult)
            /\ MmrScore(c, margs.lambda_mult)
                  = MmrScore(Picked, margs.lambda_mult) => Picked.id <= c.id

\* C20: the candidate an iteration of mmr_graph_walk selects has the highest
\* MMR score of the frontier, and the smallest id of the candidates with that
\* score, in whatever order the candidates were inserted (checked under
\* SpecMMR).
C20_SmallestIdAmongBest == [][C20_Step]_vars

(***************************************************************************)
(* The start and the queries of recursive_graph_walk (SpecWalk).           *)
(***************************************************************************)
\* The seeds of the call that gave a score, and the best score among them
HasScore(seed) == "combined_rank" \in DOMAIN seed

HighestScoredSeeds ==
    {i \in 1..Len(wargs.seed_results) :
        \A j \in 1..Len(wargs.seed_results) :
            wargs.seed_results[j].combined_rank
                <= wargs.seed_results[i].combined_rank}

\* The walk is at the head of its first iteration.
WalkStarted == wpc = "loop" /\ hop = 0

\* C21: recursive_graph_walk starts from the seed with the highest fused
\* score among the seeds it is given, in whatever order they are given; its
\* initial visited set is that seed's id and its initial history is the
\* original query followed by that seed's content.
C21_StartsFromHighestSeed ==
    WalkStarted /\ (\A i \in 1..Len(wargs.seed_results) :
                        HasScore(wargs.seed_results[i])) =>
        /\ \E i \in HighestScoredSeeds :
              current_node.id = wargs.seed_results[i].id
        /\ visited_nodes = {current_node.id}
        /\ content_history = <<OriginalPrompt, current_node.content>>

\* A step of the walk that appends a WalkStep, and the step it appends.
Appends == Len(path') = Len(path) + 1

Appended == path'[Len(path')]

\* min(len(history), len(query_weights))
WindowLength == Min(Len(content_history), Len(wargs.query_weights))

\* The weighted sum of the partial scores of a query breakdown, the i-th
\* query of n paired with the i-th of the last n weights.
RECURSIVE WindowSum(_, _, _)
WindowSum(query_scores, n, i) ==
    IF i = 0 THEN 0
    ELSE query_scores[i].rrf_score
             * wargs.query_weights[Len(wargs.query_weights) - n + i]
         + WindowSum(query_scores, n, i - 1)

C22_Step ==
    Appends =>
        /\ Len(Appended.query_scores) = WindowLength
        /\ Len(Appended.query_scores) <= Len(wargs.query_weights)
        /\ \A i \in 1..WindowLength :
              Appended.query_scores[i].query_text
                  = content_history[Len(content_history) - WindowLength + i]
        /\ Appended.combined_score
              = WindowSum(Appended.query_scores, WindowLength, WindowLength)

\* C22: the queries a hop scores with are the last min(len(history),
\* len(query_weights)) entries of the content history, in their order, the
\* j-th most recent paired with the j-th weight from the end of
\* query_weights; there are never more queries than weights.
C22_TrailingWindow == [][C22_Step]_vars

\* The same for calls with at least one weight.
C22_TrailingWindowOfWeights == [][wargs.query_weights # <<>> => C22_Step]_vars

\* The place in query_weights of the weight zip() pairs with the i-th query
\* of the appended step's breakdown.
WeightPlace(i) ==
    Len(wargs.query_weights) - Len(Appended.query_scores) + i

C23_Step ==
    Appends /\ Len(wargs.query_weights) = 2 =>
        /\ \E i \in 1..Len(Appended.query_scores) :
              /\ Appended.query_scores[i].query_text = OriginalPrompt
              /\ WeightPlace(i) = 1
        /\ \E i \in 1..Len(Appended.query_scores) :
              /\ Appended.query_scores[i].query_text = current_node.content
              /\ WeightPlace(i) = 2

\* C23: at every hop of a walk called with [weight_original, weight_current]
\* the original query is one of the queries the neighbors are scored
\* against, with weight_original applied to it, and weight_current is
\* applied to the content of the current node.
C23_OriginalQueryAtEveryHop == [][C23_Step]_vars

\* The fused score of document d in the fusion result of a query, 0 when d
\* is not in it.
PartialScore(d, query) ==
    LET hits == {r \in FinalRows(query, wargs.rrf_params.k,
                                 wargs.rrf_params.rrf_k,
                                 wargs.rrf_params.weight_fts,
                                 wargs.rrf_params.weight_vec) : r.id = d}
    IN  IF hits = {} THEN 0 ELSE (CHOOSE r \in hits : TRUE).combined_rank

RECURSIVE PairSum(_, _, _)
PairSum(query_scores, weights, n) ==
    IF n = 0 THEN 0
    ELSE weights[n] * query_scores[n].rrf_score
            + PairSum(query_scores, weights, n - 1)

C24_Step ==
    Appends =>
        /\ Len(Appended.query_scores) = Len(QueriesToUse)
        /\ \A i \in 1..Len(QueriesToUse) :
              /\ Appended.query_scores[i].query_text = QueriesToUse[i]
              /\ Appended.query_scores[i].rrf_score
                    = PartialScore(Appended.id, QueriesToUse[i])
        /\ Appended.combined_score
              = PairSum(Appended.query_scores, WeightsToUse,
                        Min(Len(QueriesToUse), Len(WeightsToUse)))

\* C24: the combined score of a neighbor is the sum over the (query, weight)
\* pairs of weight * partial score, the partial score being the neighbor's
\* fused score in the fusion result of the query and 0 when the neighbor is
\* not in it; the breakdown has one entry per query, in query order.
C24_WeightedSumOfPartialScores == [][C24_Step]_vars

\* A step scored with the weights [0.7, 0.3] whose partial scores are a
\* fused score for the first query and 0 for the second.
C24_Witness ==
    /\ Len(path) >= 1
    /\ wargs.query_weights = <<7, 3>>
    /\ Len(path[1].query_scores) = 2
    /\ path[1].query_scores[1].rrf_score > 0
    /\ path[1].query_scores[2].rrf_score = 0
    /\ path[1].combined_score = 7 * path[1].query_scores[1].rrf_score

\* a and b are the two ends of a link, in either direction.
Linked(a, b) == <<a, b>> \in links \/ <<b, a>> \in links

\* C25: the path of recursive_graph_walk is connected in the undirected
\* link graph: its first step is linked with the starting seed and every
\* later step with the step before it.
C25_PathIsConnected ==
    \A i \in 1..Len(path) :
        Linked(IF i = 1 THEN wargs.seed_results[1].id ELSE path[i - 1].id,
               path[i].id)

\* A walk from seed 2 along incoming links only: 1 links to 2, and the last
\* document links to 1 and not to 2.
C25_Witness ==
    /\ wpc = "returned"
    /\ links = {<<1, 2>>, <<NumDocs, 1>>}
    /\ Len(path) = 2
    /\ wargs.seed_results[1].id = 2
    /\ path[1].id = 1
    /\ path[2].id = NumDocs

(***************************************************************************)
(* The frontier of mmr_graph_walk (SpecMMR).                               *)
(***************************************************************************)
\* The seeds of the call that have a stored embedding, in their order
EmbeddedSeeds ==
    SelectSeq(margs.seed_results, LAMBDA seed : HasEmbedding(seed.id))

\* C26: the initial frontier of mmr_graph_walk is made of the first three
\* seeds that have a stored embedding (all of them when there are fewer),
\* each at depth 0 with max_redundancy 0; a seed without an embedding does not
\* take one of the three places.
C26_InitialFrontier ==
    mpc = "loop" /\ selected = <<>> =>
        /\ {c.id : c \in Range(candidates)}
              = {EmbeddedSeeds[i].id : i \in 1..Min(3, Len(EmbeddedSeeds))}
        /\ \A c \in Range(candidates) : c.depth = 0 /\ c.max_redundancy = 0

\* The candidates a selection step inserts into the frontier
Inserted ==
    {c \in Range(candidates') : \A x \in Range(candidates) : x.id # c.id}

\* The steps of the path whose node was expanded: get_neighbors was called
\* for it and every unvisited neighbor with an embedding was examined.
Expanded ==
    {i \in 1..Len(mmr_path) : mmr_path[i].distance_from_seed < margs.max_depth}

\* A candidate inserted now that is a neighbor of a node expanded before had
\* an embedding and was unvisited then: it was examined and cut.
C27_Step ==
    mpc = "loop" /\ Selects =>
        \A c \in Inserted : \A i \in Expanded : ~Linked(mmr_path[i].id, c.id)

\* C27: a neighbor that an expansion of mmr_graph_walk examined and
\* discarded by the top-adjacent_k cut is never inserted into the frontier
\* by a later expansion of the same walk.
C27_DiscardedStaysOut == [][C27_Step]_vars

C28_DepthsWithinMaxDepth ==
    /\ \A c \in Range(candidates) : c.depth <= margs.max_depth
    /\ \A i \in 1..Len(mmr_path) :
          /\ 0 <= mmr_path[i].distance_from_seed
          /\ mmr_path[i].distance_from_seed <= margs.max_depth

C28_NoExpansionAtMaxDepth ==
    mpc = "loop" /\ Selects /\ Picked.depth >= margs.max_depth =>
        Inserted = {} /\ visited' = visited

\* C28: mmr_graph_walk never expands a selected node whose depth is at
\* least max_depth, every candidate of the frontier has a depth of at most
\* max_depth, and every WalkStep has 0 <= distance_from_seed <= max_depth.
C28_MaxDepthIsEnforced ==
    []C28_DepthsWithinMaxDepth /\ [][C28_NoExpansionAtMaxDepth]_vars

\* A walk with min_mmr_score = -1.0 and max_depth = 0 that selected a seed
\* which has an embedded neighbor, and never visited that neighbor.
C28_Witness ==
    /\ mpc = "returned"
    /\ margs.min_mmr_score = -200
    /\ margs.max_depth = 0
    /\ Len(mmr_path) >= 1
    /\ mmr_path[1].distance_from_seed = 0
    /\ \E n \in vault \ visited :
          HasEmbedding(n) /\ Linked(mmr_path[1].id, n)

\* The neighbors the expansion of the selected candidate examines: unvisited,
\* with a stored embedding and a document row; none at max_depth.
Examined ==
    IF Picked.depth < margs.max_depth
    THEN {n \in vault \ visited : HasEmbedding(n) /\ Linked(Picked.id, n)}
    ELSE {}

QuerySimilarity(n) == CosineSimilarity(query_embedding, embedding[n])

C29_TopAdjacentK ==
    mpc = "loop" /\ Selects =>
        /\ Cardinality(Inserted) <= margs.adjacent_k
        /\ \A c \in Inserted :
              /\ c.id \in Examined
              /\ \A n \in Examined \ {x.id : x \in Inserted} :
                    c.similarity >= QuerySimilarity(n)

C29_OnlyEmbeddedNodes ==
    /\ \A c \in Range(candidates) : HasEmbedding(c.id)
    /\ \A i \in 1..Len(mmr_path) : HasEmbedding(mmr_path[i].id)

\* C29: an expansion of mmr_graph_walk inserts at most adjacent_k new
\* candidates, each at least as similar to the query as every examined
\* neighbor it does not insert; a node without a stored embedding is never
\* inserted or selected.
C29_ExpansionKeepsTheMostSimilar ==
    []C29_OnlyEmbeddedNodes /\ [][C29_TopAdjacentK]_vars

\* After the first selection with adjacent_k = 1: one neighbor is in the
\* frontier, and an embedded neighbor of the selected node, less similar to
\* the query, was left out.
C29_Witness ==
    /\ mpc = "loop"
    /\ margs.adjacent_k = 1
    /\ Len(mmr_path) = 1
    /\ \E c \in Range(candidates) :
          /\ c.depth = 1
          /\ \E n \in vault \ visited :
                /\ HasEmbedding(n)
                /\ Linked(mmr_path[1].id, n)
                /\ QuerySimilarity(n) < c.similarity

\* An unvisited neighbor of the current node that has a document row and a
\* combined score of at least the threshold.
UsableNeighborHere ==
    \E n \in Range(UnvisitedHere) \cap vault :
        ReachesThreshold(HopScores(UnvisitedHere)[n].combined_score)

C30_Step ==
    /\ wpc = "loop" /\ hop < wargs.max_hops
    /\ werror' = "none"
    /\ UsableNeighborHere
    => Appends

\* C30: a neighbor without a document row is skipped and does not end the
\* walk: a hop of recursive_graph_walk that has an unvisited neighbor with a
\* row and a score of at least the threshold appends a step.
C30_MissingRowIsSkipped == [][C30_Step]_vars

(***************************************************************************)
(* Properties of sync_vault_to_database (checked under SpecSync).          *)
(***************************************************************************)
\* C31: after every completed run a document whose content is below the
\* minimum length has no stored embedding, also when it had a longer content
\* and an embedding before.
C31_ShortDocumentsHaveNoEmbedding ==
    syncpc = "done" =>
        \A d \in vault : ~content[d].long => embedding[d] = NoEmbedding

\* The run in progress or finished found the directory as the completed run
\* before it had read it.
UnchangedRun == run_start.started /\ run_start.unchanged

EmbeddingWritten == {d \in Docs : generated[d] > 0}

\* The documents the run has inserted
NewlyInserted == IF run_start.started THEN vault \ run_start.vault ELSE {}

\* C39: within one run every id is processed for embedding at most once: at
\* most one generation and one INSERT per id, no INSERT for an id that has an
\* embedding row, exactly one of each for a newly inserted document of 10
\* characters or more once phase 2 is over, and embeddings_generated is the
\* number of documents whose embedding was written.
C39_EmbeddedAtMostOnce ==
    /\ \A d \in Docs :
          /\ generated[d] <= 1
          /\ vec_inserts[d] <= 1
          /\ vec_inserts[d] > 0 => run_start.embedding[d] = NoEmbedding
    /\ syncpc \in {"embeddings", "done"} =>
          /\ \A d \in NewlyInserted :
                content[d].long => generated[d] = 1 /\ vec_inserts[d] = 1
          /\ counts.embeddings_generated = Cardinality(EmbeddingWritten)

\* C40: a completed run leaves every document of 10 characters or more with
\* an embedding, and every embedding is the one of the current content of its
\* document, whatever runs came before, aborted ones included.
C40_EmbeddingsAreCurrent ==
    syncpc = "done" =>
        \A d \in vault :
            /\ content[d].long => embedding[d] # NoEmbedding
            /\ embedding[d] # NoEmbedding => embedded_content[d] = content[d]

\* The same for the documents of 10 characters or more only, which the short
\* documents of C31 cannot violate.
C40_LongDocumentsAreCurrent ==
    syncpc = "done" =>
        \A d \in vault :
            content[d].long =>
                /\ embedding[d] # NoEmbedding
                /\ embedded_content[d] = content[d]

(***************************************************************************)
(* Properties of the engine's helpers.                                     *)
(***************************************************************************)
\* A row (a, b) or a row (b, a) is stored.
RowBetween(a, b) ==
    \E i \in 1..Len(link_rows) :
        link_rows[i] = <<a, b>> \/ link_rows[i] = <<b, a>>

\* C32 (checked under SpecNeighbors): get_neighbors is the undirected
\* adjacency of the links table: b is in get_neighbors(a) exactly when a
\* row (a, b) or (b, a) is stored, hence b is in get_neighbors(a) if and only
\* if a is in get_neighbors(b), and the list holds each id once.
C32_UndirectedAdjacency ==
    /\ \A a \in called :
          /\ \A b \in Docs : b \in Range(neighbor_lists[a]) <=> RowBetween(a, b)
          /\ Cardinality(Range(neighbor_lists[a])) = Len(neighbor_lists[a])
    /\ \A a \in called, b \in called :
          b \in Range(neighbor_lists[a]) <=> a \in Range(neighbor_lists[b])

\* get_neighbors was called for 1 and 2 on a table that holds the row (1, 2)
\* twice and the reciprocal row (2, 1).
C32_Witness ==
    /\ {1, 2} \subseteq called
    /\ \E i \in 1..Len(link_rows), j \in 1..Len(link_rows) :
          i # j /\ link_rows[i] = <<1, 2>> /\ link_rows[j] = <<1, 2>>
    /\ <<2, 1>> \in Range(link_rows)
    /\ neighbor_lists[1] = <<2>>

\* C33 (checked under SpecConnections): no call returns or fails with a
\* connection it opened still open.
C33_ConnectionsClosed == open_connections = 0

\* The lowercase alphabetic words of 3 or more letters
LowercaseWords == {"cat", "dog", "the", "and", "for", "document"}

\* C34 (checked under SpecSanitize): the query search_documents hands to the
\* lexical method is made of lowercase alphabetic terms of 3 or more
\* letters, has no stop word, no term twice, at most max_terms terms, and is
\* not empty.
C34_LexicalQueryIsSanitized ==
    sanpc # "idle" =>
        /\ fts_query # <<>>
        /\ Range(fts_query) \subseteq LowercaseWords
        /\ Range(fts_query) \cap StopWords = {}
        /\ Cardinality(Range(fts_query)) = Len(fts_query)
        /\ Len(fts_query) <= MaxTerms

\* The same for the searches made by the walk, whose queries pass
\* sanitize_fts5_query of graph_walk.py first.
C34_WalkQueryIsSanitized == sanpc = "walk" => C34_LexicalQueryIsSanitized

\* The parts of C34 that hold for every search: terms of lowercase letters,
\* never an empty query.
C34_TermsAndPlaceholder ==
    sanpc # "idle" =>
        /\ fts_query # <<>>
        /\ Range(fts_query) \subseteq LowercaseWords

(***************************************************************************)
(* Further properties of mmr_graph_walk (checked under SpecMMR).           *)
(***************************************************************************)
\* The ids of the seeds the walk uses: seed_results[:3]
FirstThreeSeeds ==
    {margs.seed_results[i].id : i \in 1..Len(Take(margs.seed_results, 3))}

\* C35: in the path a WalkStep of distance_from_seed 0 is one of the first
\* three seeds, and a WalkStep of distance_from_seed d > 0 is linked, in
\* either direction, with an earlier WalkStep of distance_from_seed d - 1.
C35_DistanceHasAParent ==
    \A i \in 1..Len(mmr_path) :
        IF mmr_path[i].distance_from_seed = 0
        THEN mmr_path[i].id \in FirstThreeSeeds
        ELSE \E j \in 1..(i - 1) :
                /\ mmr_path[j].distance_from_seed
                       = mmr_path[i].distance_from_seed - 1
                /\ Linked(mmr_path[j].id, mmr_path[i].id)

\* The second step of a path is a neighbor of the first, selected while
\* another seed was in the frontier.
C35_Witness ==
    /\ Len(mmr_path) = 2
    /\ mmr_path[1].distance_from_seed = 0
    /\ mmr_path[2].distance_from_seed = 1
    /\ \E c \in Range(candidates) : c.depth = 0

SelectedIds == {selected[i][1] : i \in 1..Len(selected)}

FrontierIds == {candidates[i].id : i \in 1..Len(candidates)}

\* C36: at the start of every iteration, and at the return, the selected
\* ids are pairwise distinct, no id is both selected and in the frontier,
\* every selected or frontier id is in visited, and path, selected and
\* selected_embeddings have the same length; the path holds no document
\* twice.
C36_SelectedFrontierVisited ==
    mpc \in {"loop", "returned"} =>
        /\ Cardinality(SelectedIds) = Len(selected)
        /\ SelectedIds \cap FrontierIds = {}
        /\ SelectedIds \cup FrontierIds \subseteq visited
        /\ Len(mmr_path) = Len(selected)
        /\ Len(selected) = Len(selected_embeddings)
        /\ \A i \in 1..Len(mmr_path), j \in 1..Len(mmr_path) :
              i # j => mmr_path[i].id # mmr_path[j].id

\* Two selections were made from seeds that name a document twice, and the
\* frontier is not empty.
C36_Witness ==
    /\ mpc = "loop"
    /\ margs.seed_results = RepeatedSeedList
    /\ Len(selected) = 2
    /\ candidates # <<>>

\* max(0, the largest cosine of emb to one of the first n selected
\* embeddings)
LargestCosine(emb, n) ==
    LET cosines == {0} \cup {CosineSimilarity(emb, selected_embeddings[i]) :
                                i \in 1..n}
    IN  CHOOSE c \in cosines : \A x \in cosines : x <= c

\* C37: at the start of every iteration the max_redundancy of every frontier
\* candidate, seed or not, is max(0, its largest cosine to a selected node),
\* and the score of a WalkStep is lambda * similarity - (1 - lambda) * that
\* value at the time of its selection.
C37_RedundancyIsLargestCosine ==
    mpc \in {"loop", "returned"} =>
        /\ \A c \in Range(candidates) :
              c.max_redundancy = LargestCosine(c.embedding, Len(selected))
        /\ \A i \in 1..Len(mmr_path) :
              /\ i <= Len(selected_embeddings)
              /\ mmr_path[i].combined_score
                    = margs.lambda_mult
                          * CosineSimilarity(query_embedding,
                                             selected_embeddings[i])
                      - (LambdaUnit - margs.lambda_mult)
                          * LargestCosine(selected_embeddings[i], i - 1)

\* A candidate inserted by an expansion is in the frontier with a positive
\* max_redundancy, and a step was selected with one.
C37_Witness ==
    /\ mpc = "loop"
    /\ \E c \in Range(candidates) : c.depth > 0 /\ c.max_redundancy > 0
    /\ \E i \in 1..Len(mmr_path) :
          mmr_path[i].query_scores[2].rrf_score < CosUnit

=============================================================================
